---------------------------- MODULE Spec2Model ----------------------------
(***************************************************************************)
(* Model of the generation reliability pipeline of ResumeAI                *)
(* (src/backend/api/ai.py): provider health registry, the rate-limit       *)
(* window, the retrying dispatcher, the exact-match response cache and     *)
(* the two orchestrator entry points generate_cv / generate_cover_letter.  *)
(*                                                                         *)
(* Provider HTTP calls (_gemini_generate, _deepseek_generate,              *)
(* _groq_generate) are the environment: each invocation nondeterministic-  *)
(* ally returns a reply text or raises.                                    *)
(*                                                                         *)
(* The semantic cache (src/backend/api/semantic_cache.py) and the A/B test *)
(* manager (src/backend/api/ab_testing.py) are modelled as objects called  *)
(* sequentially, each with its own specification (SpecSem, SpecAB).        *)
(*                                                                         *)
(* Further specifications cover the cache keys (SpecKey), the locked       *)
(* sections that save a snapshot (SpecIO), the loading of a snapshot       *)
(* (SpecLoad), the CV content cache (SpecCv), threads on the exact-match   *)
(* cache (SpecCC) and the generation helpers of ab_testing.py (SpecGen).   *)
(***************************************************************************)
EXTENDS Integers, Sequences, FiniteSets, TLC

VARIABLES
    env,              \* os.environ as read by ai.py: enabled flags, API keys, AI_DRY_RUN
    now,              \* time.time(), in seconds
    PROVIDER_HEALTH,  \* provider -> [failures, last_success, last_failure]
    RATE_LIMITS,      \* defaultdict: provider -> [requests, daily_count, last_reset]
    RATE_LIMIT_LOCK,  \* holder of the threading.Lock, or Free
    ai_cache,         \* _ai_cache: cache key -> [response, timestamp]
    \* ---- one generate_cv / generate_cover_letter call ----
    pc,               \* position of the call
    kind,             \* "cv" | "cover_letter" | "none"
    prompt,           \* the prompt built for the call
    cache_key,        \* local cache_key
    providers,        \* local providers (the candidate order)
    idx,              \* position of the for loop in providers (1-based)
    attempt,          \* loop variable of _make_request_with_retry
    trace,            \* local trace
    result,           \* the returned (provider_used, content), or the raised exception
    invoked,          \* history: the providers handed to _make_request_with_retry, in order
    invocations,      \* history: number of provider function calls of this call
    calls,            \* history: func() and time.sleep calls of the current _make_request_with_retry
    lookups,          \* history: caches consulted by this call, in order
    health0,          \* history: PROVIDER_HEALTH as it was when this call started
    \* ---- threads calling _check_rate_limit ----
    rl_pc,            \* thread -> position inside _check_rate_limit
    rl_provider,      \* thread -> argument provider
    rl_now,           \* thread -> local now
    rl_ret,           \* thread -> returned value
    granted,          \* history: provider -> times of the calls that returned True (last hour)
    race,             \* history: the pending two-thread race for a last slot
    ticks,            \* history: number of clock steps of the rate-limit threads
    \* ---- direct callers of _cache_response / _get_cached_response ----
    cache_ret,        \* the value returned by the last _get_cached_response
    last_put,         \* history: key, response and time of the last _cache_response
    \* ---- semantic_cache.py: the SemanticCache instance ----
    sem_entries,      \* self.entries: dict in insertion order, cache_key -> SemanticCacheEntry
    embedder,         \* self.embedder: is_fitted and what the vectorizer and the SVD were fitted on
    sem_file,         \* the cache_keys of the entries last written to cache_file
    sem_ret,          \* the value returned by the last call (None unless a get hit)
    sem_evicted,      \* history: the entries _evict_lru removed, when the last call was a put
    sem_ops,          \* history: number of get calls made
    \* ---- ab_testing.py: the ABTestManager instance ----
    ab_tests,         \* self.tests: test_id -> ABTestConfig
    ab_events,        \* self.events
    ab_file,          \* the tests and events last written to data_file
    ab_ret,           \* the last call and what it returned or raised
    ab_stopped,       \* history: the tests stop_test has been called for
    ab_assigned,      \* history: (test, user, variant, nth) for every variant assign_variant returned
    \* ---- ab_testing.py: the analysis inside get_test_results ----
    stat_in,          \* the arguments of the last analysis call
    stat_ret,         \* what it returned
    \* ---- a direct caller of _get_provider_priority ----
    ord_in,           \* the configuration and the health the call saw
    ord_ret,          \* the list it returned
    \* ---- threads calling _update_provider_health ----
    hl_pc,            \* thread -> position inside _update_provider_health
    hl_arg,           \* thread -> arguments (provider, success)
    hl_tmp,           \* thread -> the counter value it has read
    hl_log,           \* history: the outcomes of the calls started, in order
    \* ---- threads inside the locked sections of SemanticCache and ABTestManager ----
    io_pc,            \* thread -> position inside the call
    io_op,            \* thread -> its current or last call and whether the call reaches the save
    io_lock,          \* component -> the thread holding self.lock, or Free
    \* ---- the constructors of SemanticCache and ABTestManager reading their file ----
    ld_in,            \* the component constructed and the file it found
    ld_out,           \* the store after __init__, and whether __init__ raised
    \* ---- the CV content cache of ai.py ----
    CV_CACHE,         \* cache key -> [data, timestamp]
    cv_ret,           \* the last extract_cv_content_with_caching call and its result
    cv_first,         \* history: text -> the last call for it that reported cached = False
    \* ---- threads inside _cache_response and _get_cached_response ----
    cc_pc,            \* thread -> position inside the call
    cc_arg,           \* thread -> the key, the response and the oldest_key of its call
    cc_ret,           \* thread -> how its last call ended (hit, miss, stored, KeyError)
    \* ---- callers of assign_generation_variant and record_generation_metrics ----
    gen_held          \* (generation_type, user_id, variant) for every variant a caller was given

envVars  == <<env>>
regVars  == <<PROVIDER_HEALTH, RATE_LIMITS, RATE_LIMIT_LOCK>>
reqVars  == <<pc, kind, prompt, cache_key, providers, idx, attempt, trace, result,
              invoked, invocations, calls, lookups, health0>>
rlVars   == <<rl_pc, rl_provider, rl_now, rl_ret, granted, race, ticks>>
cacheVars == <<cache_ret, last_put>>
semVars  == <<sem_entries, embedder, sem_file, sem_ret, sem_evicted, sem_ops>>
abVars   == <<ab_tests, ab_events, ab_file, ab_ret, ab_stopped, ab_assigned>>
statVars == <<stat_in, stat_ret>>
hlVars   == <<hl_pc, hl_arg, hl_tmp, hl_log>>
ordVars  == <<ord_in, ord_ret>>
ioVars   == <<io_pc, io_op, io_lock>>
ldVars   == <<ld_in, ld_out>>
cvVars   == <<CV_CACHE, cv_ret, cv_first>>
ccVars   == <<cc_pc, cc_arg, cc_ret>>
moreVars == <<ioVars, ldVars, cvVars, ccVars, gen_held>>
auxVars  == <<statVars, ordVars, hlVars, moreVars>>
extVars  == <<cacheVars, semVars, abVars, auxVars>>
vars     == <<env, now, PROVIDER_HEALTH, RATE_LIMITS, RATE_LIMIT_LOCK, ai_cache,
              pc, kind, prompt, cache_key, providers, idx, attempt, trace, result,
              invoked, invocations, calls, lookups, health0, rl_pc, rl_provider, rl_now, rl_ret, granted, race,
              ticks, cache_ret, last_put, sem_entries, embedder, sem_file, sem_ret,
              sem_evicted, sem_ops, ab_tests, ab_events, ab_file, ab_ret, ab_stopped,
              ab_assigned, stat_in, stat_ret, ord_in, ord_ret, hl_pc, hl_arg, hl_tmp, hl_log,
              io_pc, io_op, io_lock, ld_in, ld_out, CV_CACHE, cv_ret, cv_first,
              cc_pc, cc_arg, cc_ret, gen_held>>

---------------------------------------------------------------------------
(* Program constants *)

\* the providers of PROVIDER_HEALTH, in the order _get_provider_priority appends them
ProviderOrder == <<"gemini", "deepseek", "groq">>
Providers == {ProviderOrder[i] : i \in 1..Len(ProviderOrder)}

max_retries == 3
similarity_threshold == 85   \* SemanticCache(similarity_threshold=0.85), in percent
MetadataBonus == 10          \* (matching_values / len(common_keys)) * 0.1, in percent
min_quality == 3             \* clear_low_quality(min_quality=0.3), in tenths
HashBuckets == 10000         \* hash_value % 10000; also the probability 1.0
SplitTolerance == 100        \* abs(sum - 1.0) > 0.01, in 1/10000
base_delay == 1
FailureCeiling == 5
HourSeconds == 3600
CACHE_TTL == 3600      \* CACHE_TTL, seconds
DaySeconds == 86400

(* Configuration values (environment variables), chosen small *)
max_size == 2          \* AI_CACHE_MAX_SIZE
ttl_seconds == 20      \* AI_CACHE_TTL_SECONDS
rate_limit_hourly == 2 \* <P>_RATE_LIMIT_HOURLY
rate_limit_daily == 3  \* <P>_RATE_LIMIT_DAILY

(* Bounds of the model *)
MaxNow == 40           \* no new generate call starts after this time
MaxTicks == 3          \* clock steps between _check_rate_limit calls
MaxCacheTicks == 2     \* clock steps between calls on the exact-match cache
max_entries == 2       \* SemanticCache(max_entries=...)
ttl_hours == 1         \* SemanticCache(ttl_hours=...), in clock steps
RefitPeriod == 2       \* the embedder is re-fitted when len(entries) % RefitPeriod == 0
SavePeriod == 2        \* the cache file is written when len(entries) % SavePeriod == 0
MaxSemTicks == 2       \* clock steps between calls on the semantic cache
MaxSemGets == 2        \* get calls on the semantic cache
duration_days == 1     \* create_test(duration_days=...), in clock steps
EventSavePeriod == 2   \* the data file is written when len(events) % EventSavePeriod == 0
MaxEvents == 2         \* record_event calls
MaxAbTicks == 2        \* clock steps between calls on the A/B test manager
MaxStatEvents == 3     \* events of the analysed test
MaxFailures == 1       \* failure counts given to _get_provider_priority
MaxHlCalls == 3        \* _update_provider_health calls of the threads
MaxRecords == 3        \* entries in a semantic cache file
MaxCvTicks == 3        \* clock steps between calls on the CV cache
MaxCcTicks == 1        \* clock steps while threads use the exact-match cache
MaxAbRecords == 2      \* tests, and events, in an A/B data file

JdTexts == {"jd A"}
Templates == {"classic"}
\* the sets of providers whose <P>_API_KEY is set, as the model draws them
ApiKeyChoices == {Providers, Providers \ {"gemini"}}
Threads == {"t1", "t2"}
\* the providers the threads pass to _check_rate_limit
RlProviders == {"gemini"}
\* how far the clock moves between two _check_rate_limit calls
RlDeltas == {1, HourSeconds - 1, DaySeconds}
\* the keys direct callers pass to the exact-match cache, and the (key,
\* response) pairs they store: k1 is stored with two different responses
CacheKeys == {"k1", "k2", "k3"}
CachePuts == {<<"k1", "P1">>, <<"k1", "P2">>, <<"k2", "P1">>, <<"k3", "P2">>}
\* the clock steps between two calls on the exact-match cache
CacheDeltas == {1, ttl_seconds - 1}
Free == "free"

\* json.dumps(data)[:4000] for the body {} of an HTTP success: the provider functions
\* return the dump of a body that lacks the text field
DumpedBody == "{}"
\* what a provider function can return: a text, a whitespace-only text, an empty text,
\* the dump of a malformed body
Replies == {"Generated text", "   ", "", DumpedBody}
\* a provider function raising (requests.post error, raise_for_status, ...)
Raises == "raises"
Outcomes == Replies \cup {Raises}

---------------------------------------------------------------------------
(* Pure helpers *)

\* Python's None where a str is optional
NoneValue == "<None>"

\* Python truthiness of an Optional[str]: None and the empty string are falsy
Truthy(s) == s # "" /\ s # NoneValue

\* str.strip() on the texts of the model
Strip(s) == IF s = "   " THEN "" ELSE s

Max(a, b) == IF a >= b THEN a ELSE b

RECURSIVE Pow2(_)
Pow2(n) == IF n = 0 THEN 1 ELSE 2 * Pow2(n - 1)

\* delay = base_delay * (2 ** attempt)
BackoffDelay(a) == base_delay * Pow2(a)

\* _build_cv_prompt: a deterministic text of the job description and the template
BuildCvPrompt(jd, tpl) == "cv prompt[" \o tpl \o "] " \o jd

\* _get_cache_key: md5 of "<provider>:<prompt>" (md5 taken as injective)
GetCacheKey(p, scope) == "md5(" \o scope \o ":" \o p \o ")"

Range(f) == {f[i] : i \in 1..Len(f)}

RemoveAt(s, i) == [j \in 1..(Len(s) - 1) |-> IF j < i THEN s[j] ELSE s[j + 1]]

---------------------------------------------------------------------------
(* Exact-match response cache.  _ai_cache is a dict; the model keeps its  *)
(* entries in insertion order, the order min() and iteration see.          *)

\* position of key in the dict, 0 when absent
CacheIndex(c, key) ==
    IF \E i \in 1..Len(c) : c[i].key = key
    THEN CHOOSE i \in 1..Len(c) : c[i].key = key
    ELSE 0

\* _get_cached_response: the value returned
GetCachedResponse(c, key, t) ==
    LET i == CacheIndex(c, key) IN
    IF i # 0 /\ t - c[i].timestamp < ttl_seconds THEN c[i].response ELSE NoneValue

\* a lookup that leaves an expired entry where it is
CacheAfterGetKeepsExpired(c, key, t) == c

\* _get_cached_response: the cache it leaves (an expired entry is deleted)
CacheAfterGet(c, key, t) ==
    LET i == CacheIndex(c, key) IN
    IF i # 0 /\ ~(t - c[i].timestamp < ttl_seconds) THEN RemoveAt(c, i) ELSE c

\* the position of the newest entry
NewestIndex(c) ==
    CHOOSE i \in 1..Len(c) :
        \A j \in 1..Len(c) :
            /\ c[i].timestamp >= c[j].timestamp
            /\ (c[j].timestamp = c[i].timestamp => i >= j)

\* min(_ai_cache.keys(), key=timestamp): the first entry with the least timestamp
OldestIndex(c) ==
    CHOOSE i \in 1..Len(c) :
        \A j \in 1..Len(c) :
            /\ c[i].timestamp <= c[j].timestamp
            /\ (c[j].timestamp = c[i].timestamp => i <= j)

\* _cache_response: the cache it leaves
CacheResponse(c, key, response, t) ==
    LET c1 == IF Len(c) >= max_size THEN RemoveAt(c, OldestIndex(c)) ELSE c
        i  == CacheIndex(c1, key)
        e  == [key |-> key, response |-> response, timestamp |-> t]
    IN  IF i # 0 THEN [c1 EXCEPT ![i] = e] ELSE Append(c1, e)

---------------------------------------------------------------------------
(* Provider health registry *)

\* a registry that forgets all failures on a success
ResetOnSuccess(h, p, success, t) ==
    IF success
    THEN [h EXCEPT ![p].last_success = t, ![p].failures = 0]
    ELSE [h EXCEPT ![p].last_failure = t, ![p].failures = h[p].failures + 1]

\* a registry that counts every failure twice
CountFailureTwice(h, p, success, t) ==
    IF success
    THEN [h EXCEPT ![p].last_success = t, ![p].failures = Max(0, h[p].failures - 1)]
    ELSE [h EXCEPT ![p].last_failure = t, ![p].failures = h[p].failures + 2]

\* _update_provider_health
UpdateProviderHealth(h, p, success, t) ==
    IF success
    THEN [h EXCEPT ![p].last_success = t,
                   ![p].failures = Max(0, h[p].failures - 1)]
    ELSE [h EXCEPT ![p].last_failure = t,
                   ![p].failures = h[p].failures + 1]

\* list.sort(key=failures): stable, fewest failures first
RECURSIVE SortByFailures(_, _)
SortByFailures(s, h) ==
    IF s = <<>> THEN <<>>
    ELSE LET i == CHOOSE k \in 1..Len(s) :
                    \A j \in 1..Len(s) :
                        /\ h[s[k]].failures <= h[s[j]].failures
                        /\ (h[s[j]].failures = h[s[k]].failures => k <= j)
         IN  <<s[i]>> \o SortByFailures(RemoveAt(s, i), h)

\* _get_provider_priority
GetProviderPriority(e, h) ==
    SortByFailures(
        SelectSeq(ProviderOrder, LAMBDA p : p \in e.enabled /\ p \in e.api_key), h)

\* a gate that lets a provider through with one failure more
TooManyFailuresOffByOne(h, p) == h[p].failures > FailureCeiling + 1

\* the health gate of the dispatch loop: failures > 5
TooManyFailures(h, p) == h[p].failures > FailureCeiling

---------------------------------------------------------------------------
(* Trace entries, results, call history *)

Entry(p, status, err) == [provider |-> p, status |-> status, error |-> err]

NoResult == [provider_used |-> "", content |-> "", raised |-> ""]
Returned(p, content) == [provider_used |-> p, content |-> content, raised |-> ""]
Raised(exc) == [provider_used |-> "", content |-> "", raised |-> exc]

InvokeEvent(p, a, reply) == [op |-> "invoke", provider |-> p, attempt |-> a, reply |-> reply, delay |-> 0]
SleepEvent(p, a, d) == [op |-> "sleep", provider |-> p, attempt |-> a, reply |-> "", delay |-> d]

MockCv == "Generated CV (mock, dry run)"
FallbackCv == "Fallback CV (template)"

---------------------------------------------------------------------------
(* Rate-limit window: _check_rate_limit *)

\* RATE_LIMITS[provider]: the defaultdict creates a missing entry at time t
ProviderLimits(rl, p, t) ==
    IF p \in DOMAIN rl THEN rl[p]
    ELSE [requests |-> <<>>, daily_count |-> 0, last_reset |-> t]

\* "Reset daily counter if needed (24 hours)"
DailyReset(pl, t) ==
    IF t - pl.last_reset > DaySeconds
    THEN [requests |-> <<>>, daily_count |-> 0, last_reset |-> t]
    ELSE pl

\* a window that never forgets a request
PruneNothing(pl, t) == pl

\* "Remove requests older than 1 hour"
PruneHour(pl, t) ==
    [pl EXCEPT !.requests = SelectSeq(pl.requests, LAMBDA r : t - r < HourSeconds)]

\* the window as the limit check sees it at time t
Window(rl, p, t) == PruneHour(DailyReset(ProviderLimits(rl, p, t), t), t)

\* "Check limits": TRUE when the call is denied
LimitReached(pl) ==
    \/ Len(pl.requests) >= rate_limit_hourly
    \/ pl.daily_count >= rate_limit_daily

\* "Record this request"
RecordRequest(pl, t) ==
    [pl EXCEPT !.requests = Append(pl.requests, t), !.daily_count = pl.daily_count + 1]

\* dict assignment rl[p] = v
DictSet(d, k, v) == [x \in DOMAIN d \cup {k} |-> IF x = k THEN v ELSE d[x]]

\* a lock that never makes a thread wait
LockAlwaysAvailable(lock) == TRUE

\* with RATE_LIMIT_LOCK: the lock can be taken
LockAvailable(lock) == lock = Free

\* the slots a call at time t can still get
SlotsLeft(rl, p, t) ==
    LET w == Window(rl, p, t)
        h == rate_limit_hourly - Len(w.requests)
        d == rate_limit_daily - w.daily_count
    IN  IF h <= d THEN h ELSE d

NoRace == [active |-> FALSE, provider |-> "gemini", requests |-> 0, daily_count |-> 0]

---------------------------------------------------------------------------
(* Initial state: the module just imported *)

InitHealth == [p \in Providers |-> [failures |-> 0, last_success |-> 0, last_failure |-> 0]]

EmptyDict == [x \in {} |-> 0]

\* no _cache_response call has been made yet
NoPut == [key |-> "", response |-> NoneValue, timestamp |-> 0, at_capacity |-> FALSE]

\* no _get_cached_response call has been made yet
NoGet == [key |-> "", value |-> NoneValue]

\* SemanticEmbedder.__init__: is_fitted = False, so embed uses _simple_embedding
HashEmbedder == [is_fitted |-> FALSE, usable |-> FALSE, corpus |-> {}]

\* data_file does not exist
NoFile == [tests |-> EmptyDict, events |-> <<>>]

\* no analysis yet
NoAnalysis == [op |-> "none"]

\* the threads that report provider outcomes
HlThreads == {"t1", "t2"}
NoOutcome == [provider |-> "", success |-> FALSE]

\* the threads calling into the two components that keep a snapshot file
IoThreads == {"t1", "t2"}
\* the components: each owns one threading.Lock and one file
IoComponents == {"semantic_cache", "ab_testing"}
\* a thread that is in no call
NoIo == [op |-> "", saves |-> FALSE]

\* a thread that is in no call on the exact-match cache
NoCacheCall == [key |-> "", response |-> "", oldest_key |-> ""]

\* the CV texts passed to extract_cv_content_with_caching
CvTexts == {"", "cv A", "cv B"}
\* no extract_cv_content_with_caching call has been made yet
NoExtract == [text |-> NoneValue, cached |-> FALSE, structured_content |-> ""]
\* no call for the text has processed it yet
NeverExtracted == [called |-> FALSE, structured_content |-> "", time |-> 0]

\* a record of a snapshot file that cannot be turned into an entry, a test or an event
\* (a field is missing, a date does not parse)
Malformed == "<malformed>"
\* no constructor has run yet
NoLoad == [component |-> "", exists |-> FALSE, entries |-> <<>>, tests |-> <<>>, events |-> <<>>]
\* self.entries = {} / self.tests = {}, self.events = []
EmptyStore == [entries |-> {}, tests |-> {}, events |-> <<>>, raised |-> FALSE]

\* no ABTestManager method has been called yet
NoCall == [op |-> "none", test |-> "", user |-> "", value |-> NoneValue, raised |-> ""]

Init ==
    /\ env \in [enabled : SUBSET Providers, api_key : ApiKeyChoices, dry_run : BOOLEAN]
    /\ now = 1
    /\ PROVIDER_HEALTH = InitHealth
    /\ RATE_LIMITS = EmptyDict
    /\ RATE_LIMIT_LOCK = Free
    /\ ai_cache = <<>>
    /\ pc = "idle"
    /\ kind = "none"
    /\ prompt = ""
    /\ cache_key = <<>>
    /\ providers = <<>>
    /\ idx = 0
    /\ attempt = 0
    /\ trace = <<>>
    /\ result = NoResult
    /\ invoked = <<>>
    /\ invocations = 0
    /\ calls = <<>>
    /\ lookups = <<>>
    /\ health0 = InitHealth
    /\ rl_pc = [t \in Threads |-> "idle"]
    /\ rl_provider = [t \in Threads |-> "gemini"]
    /\ rl_now = [t \in Threads |-> 0]
    /\ rl_ret = [t \in Threads |-> FALSE]
    /\ granted = [p \in Providers |-> <<>>]
    /\ race = NoRace
    /\ ticks = 0
    /\ cache_ret = NoGet
    /\ last_put = NoPut
    /\ sem_entries = <<>>
    /\ embedder = HashEmbedder
    /\ sem_file = <<>>
    /\ sem_ret = NoneValue
    /\ sem_evicted = <<>>
    /\ sem_ops = 0
    /\ ab_tests = EmptyDict
    /\ ab_events = <<>>
    /\ ab_file = NoFile
    /\ ab_ret = NoCall
    /\ ab_stopped = {}
    /\ ab_assigned = {}
    /\ stat_in = NoAnalysis
    /\ stat_ret = NoAnalysis
    /\ ord_in = NoAnalysis
    /\ ord_ret = <<>>
    /\ hl_pc = [t \in HlThreads |-> "idle"]
    /\ hl_arg = [t \in HlThreads |-> NoOutcome]
    /\ hl_tmp = [t \in HlThreads |-> 0]
    /\ hl_log = <<>>
    /\ io_pc = [t \in IoThreads |-> "idle"]
    /\ io_op = [t \in IoThreads |-> NoIo]
    /\ io_lock = [c \in IoComponents |-> Free]
    /\ ld_in = NoLoad
    /\ ld_out = EmptyStore
    /\ CV_CACHE = EmptyDict
    /\ cv_ret = NoExtract
    /\ cv_first = [T \in CvTexts |-> NeverExtracted]
    /\ cc_pc = [t \in Threads |-> "idle"]
    /\ cc_arg = [t \in Threads |-> NoCacheCall]
    /\ cc_ret = [t \in Threads |-> "none"]
    /\ gen_held = {}

---------------------------------------------------------------------------
(* generate_cv *)

\* entry of generate_cv up to the dry-run return
GenerateCvStart(jd, tpl) ==
    /\ pc = "idle"
    /\ now <= MaxNow
    /\ kind' = "cv"
    /\ prompt' = BuildCvPrompt(jd, tpl)
    /\ cache_key' = GetCacheKey(BuildCvPrompt(jd, tpl), "cv_" \o tpl)
    /\ invoked' = <<>>
    /\ invocations' = 0
    /\ calls' = <<>>
    /\ lookups' = <<>>
    /\ health0' = PROVIDER_HEALTH
    /\ providers' = <<>>
    /\ idx' = 0
    /\ attempt' = 0
    /\ IF env.dry_run
       THEN /\ trace' = <<Entry("mock", "dry_run", "")>>
            /\ result' = Returned("mock", MockCv)
            /\ pc' = "done"
       ELSE /\ trace' = <<>>
            /\ result' = NoResult
            /\ pc' = "cache"
    /\ UNCHANGED <<env, now, regVars, ai_cache, rlVars, extVars>>

\* "Check cache first" and, on a miss, providers = _get_provider_priority()
CheckCache ==
    /\ pc = "cache"
    /\ lookups' = Append(lookups, "exact")
    /\ ai_cache' = CacheAfterGet(ai_cache, cache_key, now)
    /\ LET cached_response == GetCachedResponse(ai_cache, cache_key, now) IN
       IF Truthy(cached_response)
       THEN /\ trace' = Append(trace, Entry("cache", "hit", ""))
            /\ result' = Returned("cache", cached_response)
            /\ pc' = "done"
            /\ UNCHANGED <<providers, idx>>
       ELSE /\ providers' = GetProviderPriority(env, PROVIDER_HEALTH)
            /\ idx' = 1
            /\ pc' = "loop"
            /\ UNCHANGED <<trace, result>>
    /\ UNCHANGED <<env, now, regVars, kind, prompt, cache_key, attempt, invoked, invocations,
                   calls, health0, rlVars, extVars>>

\* head of "for provider in providers": the health gate, or the fallback after the loop
NextProvider ==
    /\ pc = "loop"
    /\ IF idx > Len(providers)
       THEN /\ trace' = Append(trace, Entry("fallback", "generated", ""))
            /\ result' = Returned("fallback", FallbackCv)
            /\ pc' = "done"
            /\ UNCHANGED <<idx, attempt, invoked, calls>>
       ELSE IF TooManyFailures(PROVIDER_HEALTH, providers[idx])
       THEN /\ trace' = Append(trace, Entry(providers[idx], "skipped", "too_many_failures"))
            /\ idx' = idx + 1
            /\ UNCHANGED <<result, pc, attempt, invoked, calls>>
       ELSE \* _make_request_with_retry(_<provider>_generate, prompt, timeout) is entered
            /\ attempt' = 0
            /\ invoked' = Append(invoked, providers[idx])
            /\ calls' = <<>>
            /\ pc' = "request"
            /\ UNCHANGED <<trace, result, idx>>
    /\ UNCHANGED <<env, now, regVars, ai_cache, kind, prompt, cache_key, providers,
                   invocations, lookups, health0, rlVars, extVars>>

\* the error text of a failed attempt: str(e)
ErrorText(outcome) == IF outcome = Raises THEN "provider error" ELSE "Empty response from API"

\* a retry helper that never gives up
LastAttemptNever(a) == FALSE

\* "if attempt == max_retries - 1": the failure is final and re-raised
LastAttempt(a) == a = max_retries - 1

\* one pass of the loop of _make_request_with_retry, with what generate_cv does
\* when the helper returns (success) or re-raises (the last attempt failed)
MakeRequest(outcome) ==
    /\ pc = "request"
    /\ invocations' = invocations + 1
    /\ LET p == providers[idx]
           called == Append(calls, InvokeEvent(p, attempt, outcome))
       IN
       IF outcome # Raises /\ Truthy(outcome)
       THEN \* return result; then the success branch of the dispatch loop
            /\ calls' = called
            /\ PROVIDER_HEALTH' = UpdateProviderHealth(PROVIDER_HEALTH, p, TRUE, now)
            /\ ai_cache' = CacheResponse(ai_cache, cache_key, outcome, now)
            /\ trace' = Append(trace, Entry(p, "success", ""))
            /\ result' = Returned(p, outcome)
            /\ pc' = "done"
            /\ UNCHANGED <<now, idx, attempt>>
       ELSE IF LastAttempt(attempt)
       THEN \* raise e; then the except branch of the dispatch loop
            /\ calls' = called
            /\ PROVIDER_HEALTH' = UpdateProviderHealth(PROVIDER_HEALTH, p, FALSE, now)
            /\ trace' = Append(trace, Entry(p, "error", ErrorText(outcome)))
            /\ idx' = idx + 1
            /\ pc' = "loop"
            /\ UNCHANGED <<now, ai_cache, result, attempt>>
       ELSE \* time.sleep(delay), next attempt
            /\ calls' = Append(called, SleepEvent(p, attempt, BackoffDelay(attempt)))
            /\ now' = now + BackoffDelay(attempt)
            /\ attempt' = attempt + 1
            /\ UNCHANGED <<PROVIDER_HEALTH, ai_cache, trace, result, idx, pc>>
    /\ UNCHANGED <<env, RATE_LIMITS, RATE_LIMIT_LOCK, kind, prompt, cache_key, providers,
                   invoked, lookups, health0, rlVars, extVars>>

---------------------------------------------------------------------------
(* generate_cover_letter *)

\* entry of generate_cover_letter: the variant is assigned and (with
\* AB_TESTING_ENABLED, ab) appended to the trace, then _build_cover_prompt(jd, cv, variant=...) is called; the function
\* takes no parameter variant, so the call raises TypeError
GenerateCoverLetter(jd, ab) ==
    /\ pc = "idle"
    /\ now <= MaxNow
    /\ kind' = "cover_letter"
    /\ prompt' = ""
    /\ cache_key' = <<>>
    /\ invoked' = <<>>
    /\ invocations' = 0
    /\ calls' = <<>>
    /\ lookups' = <<>>
    /\ health0' = PROVIDER_HEALTH
    /\ providers' = <<>>
    /\ idx' = 0
    /\ attempt' = 0
    /\ trace' = IF ab THEN <<Entry("", "ab_test_variant", "")>> ELSE <<>>
    /\ result' = Raised("TypeError")
    /\ pc' = "raised"
    /\ UNCHANGED <<env, now, regVars, ai_cache, rlVars, extVars>>

---------------------------------------------------------------------------
(* The caller and the clock *)

\* the caller has the result (or the exception); the next call may start
Return ==
    /\ pc \in {"done", "raised"}
    /\ pc' = "idle"
    /\ kind' = "none"
    /\ prompt' = ""
    /\ cache_key' = <<>>
    /\ providers' = <<>>
    /\ idx' = 0
    /\ attempt' = 0
    /\ trace' = <<>>
    /\ result' = NoResult
    /\ invoked' = <<>>
    /\ invocations' = 0
    /\ calls' = <<>>
    /\ lookups' = <<>>
    /\ health0' = PROVIDER_HEALTH
    /\ UNCHANGED <<env, now, regVars, ai_cache, rlVars, extVars>>

\* time passes between two calls
Tick ==
    /\ pc = "idle"
    /\ now + ttl_seconds <= MaxNow
    /\ now' = now + ttl_seconds
    /\ UNCHANGED <<env, regVars, ai_cache, reqVars, rlVars, extVars>>

Next ==
    \/ \E jd \in JdTexts, tpl \in Templates : GenerateCvStart(jd, tpl)
    \/ CheckCache
    \/ NextProvider
    \/ \E o \in Outcomes : MakeRequest(o)
    \/ \E jd \in JdTexts, ab \in BOOLEAN : GenerateCoverLetter(jd, ab)
    \/ Return
    \/ Tick

Spec == Init /\ [][Next]_vars

\* A call that has started keeps running, calls keep arriving while the clock
\* allows, and a provider that is invoked again and again eventually answers.
FairSpec ==
    /\ Spec
    /\ WF_vars(Next)
    /\ SF_vars(\E jd \in JdTexts, tpl \in Templates : GenerateCvStart(jd, tpl))
    /\ SF_vars(MakeRequest("Generated text"))

---------------------------------------------------------------------------
(* Threads calling _check_rate_limit(provider) *)

\* a thread calls _check_rate_limit(p) and reaches "with RATE_LIMIT_LOCK"
RlCall(t, p) ==
    /\ rl_pc[t] = "idle"
    /\ rl_pc' = [rl_pc EXCEPT ![t] = "acquire"]
    /\ rl_provider' = [rl_provider EXCEPT ![t] = p]
    /\ race' = IF /\ \E u \in Threads \ {t} :
                        rl_pc[u] \in {"acquire", "check"} /\ rl_provider[u] = p
                   /\ SlotsLeft(RATE_LIMITS, p, now) = 1
                THEN [active |-> TRUE, provider |-> p,
                      requests |-> Len(Window(RATE_LIMITS, p, now).requests),
                      daily_count |-> Window(RATE_LIMITS, p, now).daily_count]
                ELSE race
    /\ UNCHANGED <<env, now, regVars, ai_cache, reqVars, rl_now, rl_ret, granted, ticks, extVars>>

\* the lock is acquired
RlAcquire(t) ==
    /\ rl_pc[t] = "acquire"
    /\ LockAvailable(RATE_LIMIT_LOCK)
    /\ RATE_LIMIT_LOCK' = t
    /\ rl_pc' = [rl_pc EXCEPT ![t] = "check"]
    /\ UNCHANGED <<env, now, PROVIDER_HEALTH, RATE_LIMITS, ai_cache, reqVars,
                   rl_provider, rl_now, rl_ret, granted, race, ticks, extVars>>

\* now = time.time(); daily reset; hourly pruning; the limit check
RlCheck(t) ==
    /\ rl_pc[t] = "check"
    /\ LET p == rl_provider[t]
           w == Window(RATE_LIMITS, p, now)
       IN  /\ rl_now' = [rl_now EXCEPT ![t] = now]
           /\ RATE_LIMITS' = DictSet(RATE_LIMITS, p, w)
           /\ IF LimitReached(w)
              THEN /\ rl_ret' = [rl_ret EXCEPT ![t] = FALSE]
                   /\ rl_pc' = [rl_pc EXCEPT ![t] = "ret"]
                   /\ RATE_LIMIT_LOCK' = Free
              ELSE /\ rl_pc' = [rl_pc EXCEPT ![t] = "record"]
                   /\ UNCHANGED <<rl_ret, RATE_LIMIT_LOCK>>
    /\ UNCHANGED <<env, now, PROVIDER_HEALTH, ai_cache, reqVars, rl_provider, granted,
                   race, ticks, extVars>>

\* the request is recorded and True is returned
RlRecord(t) ==
    /\ rl_pc[t] = "record"
    /\ LET p == rl_provider[t] IN
           /\ RATE_LIMITS' = DictSet(RATE_LIMITS, p, RecordRequest(RATE_LIMITS[p], rl_now[t]))
           /\ granted' = [granted EXCEPT ![p] =
                   Append(SelectSeq(granted[p], LAMBDA g : rl_now[t] - g < HourSeconds),
                          rl_now[t])]
    /\ rl_ret' = [rl_ret EXCEPT ![t] = TRUE]
    /\ rl_pc' = [rl_pc EXCEPT ![t] = "ret"]
    /\ RATE_LIMIT_LOCK' = Free
    /\ UNCHANGED <<env, now, PROVIDER_HEALTH, ai_cache, reqVars, rl_provider, rl_now,
                   race, ticks, extVars>>

\* the caller has the returned value
RlReturn(t) ==
    /\ rl_pc[t] = "ret"
    /\ rl_pc' = [rl_pc EXCEPT ![t] = "idle"]
    /\ rl_provider' = [rl_provider EXCEPT ![t] = "gemini"]
    /\ rl_now' = [rl_now EXCEPT ![t] = 0]
    /\ rl_ret' = [rl_ret EXCEPT ![t] = FALSE]
    /\ race' = NoRace
    /\ UNCHANGED <<env, now, regVars, ai_cache, reqVars, granted, ticks, extVars>>

\* time passes
RlTick(d) ==
    /\ ticks < MaxTicks
    /\ ticks' = ticks + 1
    /\ now' = now + d
    /\ race' = NoRace
    /\ UNCHANGED <<env, regVars, ai_cache, reqVars, rl_pc, rl_provider, rl_now, rl_ret,
                   granted, extVars>>

RlNext ==
    \/ \E t \in Threads, p \in RlProviders : RlCall(t, p)
    \/ \E t \in Threads : RlAcquire(t)
    \/ \E t \in Threads : RlCheck(t)
    \/ \E t \in Threads : RlRecord(t)
    \/ \E t \in Threads : RlReturn(t)
    \/ \E d \in RlDeltas : RlTick(d)

\* the environment of the rate-limit threads is one fixed configuration
RlInit == Init /\ env = [enabled |-> Providers, api_key |-> Providers, dry_run |-> FALSE]

SpecRate == RlInit /\ [][RlNext]_vars

---------------------------------------------------------------------------
(* Sequential calls of _cache_response and _get_cached_response, with the  *)
(* cache enabled (AI_CACHE_ENABLED, the default)                            *)

\* _cache_response(k, P)
CachePut(k, P) ==
    /\ ai_cache' = CacheResponse(ai_cache, k, P, now)
    /\ last_put' = [key |-> k, response |-> P, timestamp |-> now,
                    at_capacity |-> Len(ai_cache) >= max_size]
    /\ UNCHANGED <<env, auxVars, now, regVars, reqVars, rlVars, cache_ret, semVars, abVars>>

\* _get_cached_response(k)
CacheGet(k) ==
    /\ cache_ret' = [key |-> k, value |-> GetCachedResponse(ai_cache, k, now)]
    /\ ai_cache' = CacheAfterGet(ai_cache, k, now)
    /\ UNCHANGED <<env, auxVars, now, regVars, reqVars, rlVars, last_put, semVars, abVars>>

\* time passes
CacheTick(d) ==
    /\ ticks < MaxCacheTicks
    /\ ticks' = ticks + 1
    /\ now' = now + d
    /\ UNCHANGED <<env, regVars, ai_cache, reqVars, rl_pc, rl_provider, rl_now, rl_ret,
                   granted, race, extVars>>

CacheNext ==
    \/ \E kp \in CachePuts : CachePut(kp[1], kp[2])
    \/ \E k \in CacheKeys : CacheGet(k)
    \/ \E d \in CacheDeltas : CacheTick(d)

SpecCache == RlInit /\ [][CacheNext]_vars

---------------------------------------------------------------------------
(* Callers that key the exact-match cache by prompt and scope, as          *)
(* generate_cv and generate_cover_letter do: _get_cache_key(prompt, scope) *)
(* followed by _cache_response or _get_cached_response.                    *)

\* the scope labels: "cover_letter" and f"cv_{template}"
KeyScopes == {"cover_letter", "cv_classic"}
\* the (prompt, scope, response) triples stored
KeyPuts == {<<" jd A ", "cv_classic", "P1">>, <<"jd A", "cover_letter", "P2">>,
            <<"jd B", "cv_classic", "P2">>}
\* the (prompt, scope) pairs looked up
KeyGets == {<<"jd A", "cv_classic">>, <<"jd  A", "cv_classic">>, <<" jd A ", "cv_classic">>,
            <<"jd B", "cv_classic">>}
KeyPrompts == {a[1] : a \in KeyPuts \cup KeyGets}

\* _cache_response(_get_cache_key(p, scope), P)
KeyStore(p, scope, P) ==
    /\ ai_cache' = CacheResponse(ai_cache, GetCacheKey(p, scope), P, now)
    /\ last_put' = [key |-> GetCacheKey(p, scope), response |-> P, timestamp |-> now,
                    at_capacity |-> Len(ai_cache) >= max_size]
    /\ UNCHANGED <<env, auxVars, now, regVars, reqVars, rlVars, cache_ret, semVars, abVars>>

\* _get_cached_response(_get_cache_key(p, scope))
KeyLookup(p, scope) ==
    /\ cache_ret' = [key |-> GetCacheKey(p, scope),
                     value |-> GetCachedResponse(ai_cache, GetCacheKey(p, scope), now)]
    /\ ai_cache' = CacheAfterGet(ai_cache, GetCacheKey(p, scope), now)
    /\ UNCHANGED <<env, auxVars, now, regVars, reqVars, rlVars, last_put, semVars, abVars>>

KeyNext ==
    \/ \E a \in KeyPuts : KeyStore(a[1], a[2], a[3])
    \/ \E a \in KeyGets : KeyLookup(a[1], a[2])

SpecKey == RlInit /\ [][KeyNext]_vars

---------------------------------------------------------------------------
(* semantic_cache.py: SemanticEmbedder and SemanticCache.                  *)
(* A prompt is a text about one topic; similarities are in percent.        *)

\* the prompts passed to get and put; "   " is blank
SemPrompts == {"alpha role", "alpha position", "beta role", "   "}
\* the calls put(prompt, response, quality_score, metadata): quality_score in
\* tenths; metadata is the generation_type of the caller, "" when none is passed
SemPuts == {<<"alpha role", "r1", 5, "cv">>, <<"alpha position", "r2", 2, "">>,
            <<"beta role", "r3", 5, "cv">>, <<"   ", "r1", 5, "cv">>}
\* the calls get(prompt, metadata)
SemGets == {<<"alpha role", "cv">>, <<"alpha position", "">>,
            <<"beta role", "cover_letter">>, <<"   ", "">>}
\* outcomes of SemanticEmbedder.fit: both fits succeed, or one of them raises
FitOutcomes == {"fitted", "raised"}

\* the vocabulary terms of a prompt that survive the stop-word filter
Topic(p) == IF p \in {"alpha role", "alpha position"} THEN "alpha" ELSE "beta"

\* cosine similarity of two vectors of the same space
FullSimilarity == 100
NearSimilarity == 90
LowSimilarity == 20
\* what cosine similarity can give for vectors of two different fits: 0.0
\* when the dimensions differ (the exception is caught), any value otherwise
CrossSpaceSimilarities == {0, NearSimilarity}

\* SemanticEmbedder.embed: the vector as (space, text); the text "" is the
\* zero vector a fitted vectorizer gives for a prompt outside its vocabulary
ZeroText == ""
Embed(emb, p) ==
    IF ~emb.is_fitted \/ ~emb.usable
    THEN [space |-> {"hash"}, text |-> p]
    ELSE IF Topic(p) \in {Topic(q) : q \in emb.corpus}
    THEN [space |-> emb.corpus, text |-> p]
    ELSE [space |-> emb.corpus, text |-> ZeroText]

\* SemanticEmbedder.similarity; cross is the value for vectors of different spaces
Similarity(e1, e2, cross) ==
    IF e1.space # e2.space THEN cross
    ELSE IF e1.text = ZeroText \/ e2.text = ZeroText THEN 0
    ELSE IF e1.text = e2.text THEN FullSimilarity
    ELSE IF Topic(e1.text) = Topic(e2.text) THEN NearSimilarity
    ELSE LowSimilarity

\* SemanticEmbedder.fit
Fit(emb, texts, outcome) ==
    IF texts = {} THEN emb
    ELSE IF outcome = "fitted"
    THEN [is_fitted |-> TRUE, usable |-> TRUE, corpus |-> texts]
    ELSE [emb EXCEPT !.usable = FALSE]

\* the metadata bonus of get
Bonus(metadata, e) ==
    IF metadata # "" /\ e.metadata # "" /\ metadata = e.metadata THEN MetadataBonus ELSE 0

\* a threshold no identical prompt reaches without a bonus
AboveFullMatch(total) == total > FullSimilarity

\* "total_similarity >= self.similarity_threshold"
MeetsThreshold(total) == total >= similarity_threshold

\* _cleanup_expired
CleanupExpired(es, t) == SelectSeq(es, LAMBDA e : ~(t - e.created_at > ttl_hours))

\* entries in the order of their creation time
RECURSIVE SortByCreatedAt(_)
SortByCreatedAt(es) ==
    IF es = <<>> THEN <<>>
    ELSE LET i == CHOOSE k \in 1..Len(es) :
                    \A j \in 1..Len(es) :
                        /\ es[k].created_at <= es[j].created_at
                        /\ (es[j].created_at = es[k].created_at => k <= j)
         IN  <<es[i]>> \o SortByCreatedAt(RemoveAt(es, i))

\* sorted(self.entries.items(), key=last_accessed): stable
RECURSIVE SortByLastAccessed(_)
SortByLastAccessed(es) ==
    IF es = <<>> THEN <<>>
    ELSE LET i == CHOOSE k \in 1..Len(es) :
                    \A j \in 1..Len(es) :
                        /\ es[k].last_accessed <= es[j].last_accessed
                        /\ (es[j].last_accessed = es[k].last_accessed => k <= j)
         IN  <<es[i]>> \o SortByLastAccessed(RemoveAt(es, i))

\* _evict_lru: the entries it deletes
Evicted(es) ==
    IF Len(es) <= max_entries THEN <<>>
    ELSE SubSeq(SortByLastAccessed(es), 1, Len(es) - max_entries)

\* an eviction that deletes nothing
EvictNothing(es) == es

\* _evict_lru: the entries it leaves
EvictLru(es) == SelectSeq(es, LAMBDA e : e \notin Range(Evicted(es)))

\* the scan of get: position of the best match, 0 when none meets the threshold
BestMatch(es, q, metadata, cross) ==
    LET total(i) == Similarity(q, es[i].embedding, cross) + Bonus(metadata, es[i])
        ok == {i \in 1..Len(es) : total(i) > 0 /\ MeetsThreshold(total(i))}
    IN  IF ok = {} THEN 0
        ELSE CHOOSE i \in ok : \A j \in ok : total(i) > total(j) \/ (total(i) = total(j) /\ i <= j)

\* the cache_key of put: md5 of "<prompt>:<response>" (md5 taken as injective)
SemKey(p, r) == <<"md5", p \o ":" \o r>>

\* _save_cache: the entries written, by cache_key
SavedKeys(es) == [i \in 1..Len(es) |-> es[i].cache_key]

\* SemanticCache.get(prompt, metadata)
SemGet(p, metadata, cross) ==
    /\ sem_ops < MaxSemGets
    /\ sem_ops' = sem_ops + 1
    /\ IF Strip(p) = ""
       THEN /\ sem_ret' = NoneValue
            /\ UNCHANGED sem_entries
       ELSE LET es == CleanupExpired(sem_entries, now)
                i  == BestMatch(es, Embed(embedder, p), metadata, cross)
            IN  IF i = 0
                THEN /\ sem_ret' = NoneValue
                     /\ sem_entries' = es
                ELSE /\ sem_ret' = es[i].response_text
                     /\ sem_entries' = [es EXCEPT ![i].last_accessed = now,
                                                  ![i].access_count = es[i].access_count + 1]
    /\ sem_evicted' = <<>>
    /\ UNCHANGED <<env, auxVars, now, regVars, ai_cache, reqVars, rlVars, cacheVars, embedder,
                   sem_file, abVars>>

\* SemanticCache.put(prompt, response, quality_score, metadata)
SemPut(p, r, quality, metadata, outcome) ==
    /\ IF Strip(p) = "" \/ Strip(r) = "" \/ SemKey(p, r) \in {e.cache_key : e \in Range(sem_entries)}
       THEN /\ sem_evicted' = <<>>
            /\ UNCHANGED <<sem_entries, embedder, sem_file>>
       ELSE LET entry == [cache_key |-> SemKey(p, r), prompt_text |-> p, response_text |-> r,
                          embedding |-> Embed(embedder, p), metadata |-> metadata,
                          created_at |-> now, last_accessed |-> now, access_count |-> 0,
                          quality_score |-> quality]
                live  == CleanupExpired(Append(sem_entries, entry), now)
                kept  == EvictLru(live)
            IN  /\ sem_entries' = kept
                /\ sem_evicted' = Evicted(live)
                /\ embedder' = IF Len(kept) % RefitPeriod = 0
                               THEN Fit(embedder, {e.prompt_text : e \in Range(kept)}, outcome)
                               ELSE embedder
                /\ sem_file' = IF Len(kept) % SavePeriod = 0 THEN SavedKeys(kept) ELSE sem_file
    /\ sem_ret' = NoneValue
    /\ UNCHANGED <<env, auxVars, now, regVars, ai_cache, reqVars, rlVars, cacheVars, sem_ops, abVars>>

\* SemanticCache.clear_low_quality(min_quality)
SemClearLowQuality ==
    /\ LET kept == SelectSeq(sem_entries, LAMBDA e : ~(e.quality_score < min_quality)) IN
           /\ sem_entries' = kept
           /\ sem_file' = IF kept # sem_entries THEN SavedKeys(kept) ELSE sem_file
    /\ sem_ret' = NoneValue
    /\ sem_evicted' = <<>>
    /\ UNCHANGED <<env, auxVars, now, regVars, ai_cache, reqVars, rlVars, cacheVars, embedder, sem_ops,
                   abVars>>

\* time passes
SemTick ==
    /\ ticks < MaxSemTicks
    /\ ticks' = ticks + 1
    /\ now' = now + 1
    /\ sem_evicted' = <<>>
    /\ UNCHANGED <<env, auxVars, regVars, ai_cache, reqVars, rl_pc, rl_provider, rl_now, rl_ret,
                   granted, race, cacheVars, sem_entries, embedder, sem_file, sem_ret, sem_ops,
                   abVars>>

SemNext ==
    \/ \E g \in SemGets, x \in CrossSpaceSimilarities : SemGet(g[1], g[2], x)
    \/ \E c \in SemPuts, o \in FitOutcomes : SemPut(c[1], c[2], c[3], c[4], o)
    \/ SemClearLowQuality
    \/ SemTick

SpecSem == RlInit /\ [][SemNext]_vars

---------------------------------------------------------------------------
(* ab_testing.py: ABTestManager.  Probabilities and hash values are in     *)
(* units of 1/10000, the resolution of random_value in assign_variant.     *)
(* A traffic_split dict is the sequence of its items in insertion order.   *)
(* _save_data is taken to write the file it opens.                         *)

AbTestIds == {"cv_optimization", "cover_letter_optimization"}
\* ids the callers ask about; "email_optimization" is never created
AbLookups == AbTestIds \cup {"email_optimization"}

\* int(md5("test_id:user_id").hexdigest(), 16) % 10000, the values md5 gives
HashBucket(t, u) ==
    CASE t = "cv_optimization" /\ u = "user_2"   -> 2007
      [] t = "cv_optimization" /\ u = "user_4"   -> 4807
      [] t = "cv_optimization" /\ u = "user_163" -> 9957
      [] t = "cv_optimization" /\ u = "user_17100" -> 0
      [] t = "cover_letter_optimization" /\ u = "user_2"   -> 6714
      [] t = "cover_letter_optimization" /\ u = "user_4"   -> 9972
      [] t = "cover_letter_optimization" /\ u = "user_163" -> 7717
      [] t = "email_optimization" /\ u = "user_2"   -> 9250
      [] t = "email_optimization" /\ u = "user_4"   -> 2521
      [] t = "email_optimization" /\ u = "user_163" -> 9248

\* arguments (variants, traffic_split) of create_test
AbConfigs ==
    { [variants |-> <<"control", "variant_a">>,
       traffic_split |-> << <<"control", 5000>>, <<"variant_a", 5000>> >>],
      [variants |-> <<"control", "control">>,
       traffic_split |-> << <<"control", 10000>> >>],
      [variants |-> <<"variant_a", "control">>,
       traffic_split |-> << <<"control", 4000>>, <<"variant_a", 5950>> >>],
      [variants |-> <<"control">>,
       traffic_split |-> << <<"control", 6000>>, <<"variant_a", 4000>> >>],
      [variants |-> <<"control", "variant_a">>,
       traffic_split |-> << <<"control", 5000>>, <<"variant_a", 4000>> >>],
      [variants |-> <<>>, traffic_split |-> <<>>] }

\* the create_test calls: every configuration for one id, a valid one for the other
AbCreateArgs ==
    {<<"cv_optimization", cfg>> : cfg \in AbConfigs}
        \cup {<<"cover_letter_optimization", cfg>> :
                  cfg \in {c \in AbConfigs : c.traffic_split = << <<"control", 4000>>, <<"variant_a", 5950>> >>}}

\* arguments (test_id, user_id) of assign_variant
AbAssignArgs ==
    { <<"cv_optimization", "user_4">>, <<"cv_optimization", "user_163">> }

\* argument test_id of stop_test: a test that may exist and one that never does
AbStopArgs == {"cv_optimization", "email_optimization"}

\* arguments (test_id, user_id, variant) of record_event
AbEventArgs ==
    { <<"cv_optimization", "user_2", "control">>,
      <<"email_optimization", "user_2", "control">> }

Abs(x) == IF x < 0 THEN 0 - x ELSE x

\* cumulative_probability after the first i items of traffic_split
RECURSIVE Cumulative(_, _)
Cumulative(split, i) == IF i = 0 THEN 0 ELSE Cumulative(split, i - 1) + split[i][2]

\* sum(traffic_split.values())
SplitSum(split) == Cumulative(split, Len(split))

\* set(traffic_split.keys())
SplitKeys(split) == {split[i][1] : i \in 1..Len(split)}

\* index of the first item with random_value <= cumulative_probability, 0 if the loop ends
FirstReached(split, h) ==
    IF \E i \in 1..Len(split) : h <= Cumulative(split, i)
    THEN CHOOSE i \in 1..Len(split) :
             /\ h <= Cumulative(split, i)
             /\ \A j \in 1..(i - 1) : ~(h <= Cumulative(split, j))
    ELSE 0

\* number of recorded events of a test that carry a variant
Load(t, v) == Len(SelectSeq(ab_events, LAMBDA e : e.test_id = t /\ e.variant = v))

\* an assignment that balances the variants by the events recorded so far
LeastLoadedVariant(t, test, h) ==
    LET vs == test.variants
        i  == CHOOSE i \in 1..Len(vs) :
                  \A j \in 1..Len(vs) :
                      Load(t, vs[i]) < Load(t, vs[j]) \/ (Load(t, vs[i]) = Load(t, vs[j]) /\ i <= j)
    IN  vs[i]

\* assign_variant, the walk over traffic_split and the fallback
AssignedVariant(t, test, h) ==
    LET i == FirstReached(test.traffic_split, h) IN
        IF i # 0 THEN test.traffic_split[i][1] ELSE test.variants[1]

\* a check that ignores the dates
AssignableUntilStopped(test, t) == test.is_active

\* assign_variant, the checks before the walk; end_date is a datetime (truthy) in
\* every test that create_test builds and stop_test changes
Assignable(test, t) ==
    /\ ~(~test.is_active \/ t < test.start_date)
    /\ ~(t > test.end_date)

\* the ABTestConfig built by create_test
NewTest(cfg, t, duration) ==
    [variants |-> cfg.variants, traffic_split |-> cfg.traffic_split,
     start_date |-> t, end_date |-> t + duration, is_active |-> TRUE]

\* a stop that records the end date only
StoppedKeepsActive(test, t) == [test EXCEPT !.end_date = t]

\* stop_test, the two assignments
Stopped(test, t) == [test EXCEPT !.is_active = FALSE, !.end_date = t]

\* the checks of create_test, in order; "" when the test is created
CreateError(tests, t, cfg) ==
    IF Abs(SplitSum(cfg.traffic_split) - HashBuckets) > SplitTolerance
    THEN "Traffic split must sum to 1.0"
    ELSE IF Range(cfg.variants) # SplitKeys(cfg.traffic_split)
    THEN "Variants and traffic split keys must match"
    ELSE IF t \in DOMAIN tests
    THEN "Test already exists"
    ELSE ""

AbCall(op, t, u, value, raised) ==
    [op |-> op, test |-> t, user |-> u, value |-> value, raised |-> raised]

\* ABTestManager.create_test
CreateTest(t, cfg) ==
    /\ LET err == CreateError(ab_tests, t, cfg) IN
        IF err # ""
        THEN /\ ab_ret' = AbCall("create_test", t, "", NoneValue, err)
             /\ UNCHANGED <<ab_tests, ab_file>>
        ELSE /\ ab_tests' = DictSet(ab_tests, t, NewTest(cfg, now, duration_days))
             /\ ab_file' = [tests |-> ab_tests', events |-> ab_events]
             /\ ab_ret' = AbCall("create_test", t, "", "created", "")
    /\ UNCHANGED <<env, auxVars, now, regVars, ai_cache, reqVars, rlVars, cacheVars, semVars,
                   ab_events, ab_stopped, ab_assigned>>

\* history: 1 for the first variant returned to (test_id, user_id), 2 for a later one
Nth(t, u) == IF \E a \in ab_assigned : a[1] = t /\ a[2] = u THEN 2 ELSE 1

\* ABTestManager.assign_variant; ab_assigned is the history of the variants returned
AssignVariant(t, u) ==
    /\ LET v == IF t \notin DOMAIN ab_tests THEN NoneValue
                ELSE IF ~Assignable(ab_tests[t], now) THEN NoneValue
                ELSE AssignedVariant(t, ab_tests[t], HashBucket(t, u))
       IN  /\ ab_ret' = AbCall("assign_variant", t, u, v, "")
           /\ ab_assigned' = IF v = NoneValue THEN ab_assigned
                             ELSE ab_assigned \cup {<<t, u, v, Nth(t, u)>>}
    /\ UNCHANGED <<env, auxVars, now, regVars, ai_cache, reqVars, rlVars, cacheVars, semVars,
                   ab_tests, ab_events, ab_file, ab_stopped>>

\* a log that keeps the latest event only
KeepLatestEvent(events, e) == <<e>>

\* self.events.append(event)
AppendEvent(events, e) == Append(events, e)

\* ABTestManager.record_event
RecordEvent(t, u, v) ==
    /\ Len(ab_events) < MaxEvents
    /\ IF t \notin DOMAIN ab_tests
       THEN UNCHANGED <<ab_events, ab_file>>
       ELSE /\ ab_events' = AppendEvent(ab_events, [test_id |-> t, user_id |-> u, variant |-> v])
            /\ ab_file' = IF Len(ab_events') % EventSavePeriod = 0
                          THEN [tests |-> ab_tests, events |-> ab_events']
                          ELSE ab_file
    /\ ab_ret' = AbCall("record_event", "", "", NoneValue, "")
    /\ UNCHANGED <<env, auxVars, now, regVars, ai_cache, reqVars, rlVars, cacheVars, semVars,
                   ab_tests, ab_stopped, ab_assigned>>

\* ABTestManager.get_test_results, which reads and changes nothing
GetTestResults(t) ==
    /\ ab_ret' = AbCall("get_test_results", "", "",
                        IF t \notin DOMAIN ab_tests THEN "Test not found"
                        ELSE IF SelectSeq(ab_events, LAMBDA e : e.test_id = t) = <<>>
                        THEN "No events recorded"
                        ELSE "results", "")
    /\ UNCHANGED <<env, auxVars, now, regVars, ai_cache, reqVars, rlVars, cacheVars, semVars,
                   ab_tests, ab_events, ab_file, ab_stopped, ab_assigned>>

\* ABTestManager.stop_test
StopTest(t) ==
    /\ IF t \in DOMAIN ab_tests
       THEN /\ ab_tests' = [ab_tests EXCEPT ![t] = Stopped(ab_tests[t], now)]
            /\ ab_file' = [tests |-> ab_tests', events |-> ab_events]
            /\ ab_stopped' = ab_stopped \cup {t}
       ELSE UNCHANGED <<ab_tests, ab_file, ab_stopped>>
    /\ ab_ret' = AbCall("stop_test", "", "", NoneValue, "")
    /\ UNCHANGED <<env, auxVars, now, regVars, ai_cache, reqVars, rlVars, cacheVars, semVars,
                   ab_events, ab_assigned>>

\* the process restarts: ABTestManager.__init__ and _load_data read the file
AbRestart ==
    /\ ab_tests' = ab_file.tests
    /\ ab_events' = ab_file.events
    /\ ab_ret' = NoCall
    /\ UNCHANGED <<env, auxVars, now, regVars, ai_cache, reqVars, rlVars, cacheVars, semVars,
                   ab_file, ab_stopped, ab_assigned>>

\* time passes
AbTick ==
    /\ ticks < MaxAbTicks
    /\ ticks' = ticks + 1
    /\ now' = now + 1
    /\ ab_ret' = NoCall
    /\ UNCHANGED <<env, auxVars, regVars, ai_cache, reqVars, rl_pc, rl_provider, rl_now, rl_ret,
                   granted, race, cacheVars, semVars, ab_tests, ab_events, ab_file,
                   ab_stopped, ab_assigned>>

AbNext ==
    \/ \E c \in AbCreateArgs : CreateTest(c[1], c[2])
    \/ \E a \in AbAssignArgs : AssignVariant(a[1], a[2])
    \/ \E a \in AbEventArgs : RecordEvent(a[1], a[2], a[3])
    \/ \E t \in AbLookups : GetTestResults(t)
    \/ \E t \in AbStopArgs : StopTest(t)
    \/ AbRestart
    \/ AbTick

SpecAB == RlInit /\ [][AbNext]_vars

---------------------------------------------------------------------------
(* The module-level helpers of ab_testing.py that the generation code and  *)
(* the views call: create_generation_ab_test, assign_generation_variant,   *)
(* record_generation_metrics, with stop_test and get_test_results of the   *)
(* manager.                                                                *)

\* test_id = f"{generation_type}_optimization"
GenTestId(g) == g \o "_optimization"

GenTypes == {"cv"}
\* two subjects: md5 puts user_17100 in bucket 0 and user_163 in bucket 9957
GenUsers == {"user_163", "user_17100"}
\* the variants a caller can hold
GenVariants == {"concise", "detailed", "control"}

\* arguments (variants, traffic_split) of create_generation_ab_test
GenConfigs ==
    { [variants |-> <<"concise", "detailed">>,
       traffic_split |-> << <<"concise", 0>>, <<"detailed", 10000>> >>],
      [variants |-> <<"concise", "detailed">>,
       traffic_split |-> << <<"detailed", 9950>>, <<"concise", 0>> >>] }

\* create_generation_ab_test: create_test of the manager for the test id of the type
CreateGenerationAbTest(g, cfg) ==
    /\ LET t   == GenTestId(g)
           err == CreateError(ab_tests, t, cfg)
       IN  IF err # ""
           THEN /\ ab_ret' = AbCall("create_test", "", "", NoneValue, err)
                /\ UNCHANGED <<ab_tests, ab_file>>
           ELSE /\ ab_tests' = DictSet(ab_tests, t, NewTest(cfg, now, duration_days))
                /\ ab_file' = [tests |-> ab_tests', events |-> ab_events]
                /\ ab_ret' = AbCall("create_test", "", "", "created", "")
    /\ UNCHANGED <<env, auxVars, now, regVars, ai_cache, reqVars, rlVars, cacheVars, semVars,
                   ab_events, ab_stopped, ab_assigned>>

\* assign_generation_variant: the variant of assign_variant, "control" when it gives None
AssignGenerationVariant(u, g) ==
    /\ LET t == GenTestId(g)
           v == IF t \notin DOMAIN ab_tests THEN NoneValue
                ELSE IF ~Assignable(ab_tests[t], now) THEN NoneValue
                ELSE AssignedVariant(t, ab_tests[t], HashBucket(t, u))
           given == IF Truthy(v) THEN v ELSE "control"
       IN  /\ ab_ret' = AbCall("assign_generation_variant", "", "", NoneValue, "")
           /\ ab_assigned' = IF v = NoneValue THEN ab_assigned
                             ELSE ab_assigned \cup {<<t, u, v, Nth(t, u)>>}
           /\ gen_held' = gen_held \cup {<<g, u, given>>}
    /\ UNCHANGED <<env, statVars, ordVars, hlVars, ioVars, ldVars, cvVars, ccVars, now, regVars,
                   ai_cache, reqVars, rlVars, cacheVars, semVars,
                   ab_tests, ab_events, ab_file, ab_stopped>>

\* record_generation_metrics with the variant the caller was given: record_event of the
\* manager, the metrics holding quality_score
RecordGenerationMetrics(u, g, v) ==
    /\ <<g, u, v>> \in gen_held
    /\ Len(ab_events) < MaxEvents
    /\ LET t == GenTestId(g) IN
       IF t \notin DOMAIN ab_tests
       THEN UNCHANGED <<ab_events, ab_file>>
       ELSE /\ ab_events' = AppendEvent(ab_events, [test_id |-> t, user_id |-> u, variant |-> v])
            /\ ab_file' = IF Len(ab_events') % EventSavePeriod = 0
                          THEN [tests |-> ab_tests, events |-> ab_events']
                          ELSE ab_file
    /\ ab_ret' = AbCall("record_event", "", "", NoneValue, "")
    /\ UNCHANGED <<env, auxVars, now, regVars, ai_cache, reqVars, rlVars, cacheVars, semVars,
                   ab_tests, ab_stopped, ab_assigned>>

GenNext ==
    \/ \E g \in GenTypes, cfg \in GenConfigs : CreateGenerationAbTest(g, cfg)
    \/ \E u \in GenUsers, g \in GenTypes : AssignGenerationVariant(u, g)
    \/ \E u \in GenUsers, g \in GenTypes, v \in GenVariants : RecordGenerationMetrics(u, g, v)
    \/ \E g \in GenTypes : StopTest(GenTestId(g))
    \/ \E g \in GenTypes : GetTestResults(GenTestId(g))
    \/ AbTick

SpecGen == RlInit /\ [][GenNext]_vars

---------------------------------------------------------------------------
(* ab_testing.py: the analysis of get_test_results.  A variant name is the  *)
(* sequence of its parts between occurrences of "_vs_": "control" is       *)
(* <<"control">> and "prompt_vs_template" is <<"prompt", "template">>, so  *)
(* that f"{a}_vs_{b}" is a \o b and key.split("_vs_") is the key itself.   *)
(* Means are the integers np.mean gives on the data of the variants.       *)

\* the variant names of the recorded events, in the order of variant_stats
StatNameLists ==
    { <<>>,
      << <<"control">> >>,
      << <<"control">>, <<"variant_a">> >>,
      << <<"variant_a">>, <<"control">> >>,
      << <<"control">>, <<"variant_a">>, <<"variant_b">> >>,
      << <<"control">>, <<"prompt", "template">> >>,
      << <<"control">>, <<"anova_tuned">> >> }

\* the parts of a name or key that contain the text "anova"
AnovaWords == {"anova", "anova_tuned"}

\* the assignments of distinct means 1..n to n variants
MeanOrders(n) == {m \in [1..n -> 1..n] : \A i, j \in 1..n : m[i] = m[j] => i = j}

\* the pairs (i, j), i < j, in the order of the two loops of _perform_significance_tests
RECURSIVE PairsFrom(_, _, _)
PairsFrom(i, j, n) ==
    IF i >= n THEN <<>>
    ELSE IF j > n THEN PairsFrom(i + 1, i + 2, n)
    ELSE << <<i, j>> >> \o PairsFrom(i, j + 1, n)

\* variant_stats: name and mean per variant
VariantStats(names, means) == [i \in 1..Len(names) |-> [name |-> names[i], mean |-> means[i]]]

\* significance_results as _perform_significance_tests builds it, with the outcome of
\* each t-test (sig: the significant pairs) and of the ANOVA (an) given
SignificanceResults(stats, sig, an) ==
    LET pairs == PairsFrom(1, 2, Len(stats))
        tests == [k \in 1..Len(pairs) |->
                     [key |-> stats[pairs[k][1]].name \o stats[pairs[k][2]].name,
                      is_significant |-> pairs[k] \in sig]]
    IN  IF Len(stats) > 2
        THEN Append(tests, [key |-> <<"anova">>, is_significant |-> an])
        ELSE tests

\* "anova" in comparison
ContainsAnova(key) == \E i \in 1..Len(key) : key[i] \in AnovaWords

\* the position of a name in variant_stats
StatIndex(stats, name) == (CHOOSE i \in 1..Len(stats) : stats[i].name = name)

\* max(..., key=mean) over a sequence of names: the first of the largest
FirstMax(stats, names) ==
    names[CHOOSE i \in 1..Len(names) :
              /\ \A j \in 1..Len(names) : stats[StatIndex(stats, names[j])].mean <= stats[StatIndex(stats, names[i])].mean
              /\ \A j \in 1..(i - 1) : stats[StatIndex(stats, names[j])].mean < stats[StatIndex(stats, names[i])].mean]

\* the comparisons _determine_winner counts: significant, no "anova", two parts
Counted(r) == ~ContainsAnova(r.key) /\ r.is_significant /\ Len(r.key) = 2

\* significant_wins
SignificantWins(stats, results) ==
    LET counted == SelectSeq(results, Counted) IN
        [k \in 1..Len(counted) |->
            LET a == << counted[k].key[1] >>
                b == << counted[k].key[2] >>
            IN  IF stats[StatIndex(stats, a)].mean > stats[StatIndex(stats, b)].mean THEN a ELSE b]

\* ABTestManager._determine_winner
DetermineWinner(stats, results) ==
    IF stats = <<>>
    THEN [winner |-> <<>>, confidence |-> "none"]
    ELSE LET best == FirstMax(stats, [i \in 1..Len(stats) |-> stats[i].name])
             wins == SignificantWins(stats, results)
         IN  IF best \in Range(wins)
             THEN [winner |-> best, confidence |-> "high"]
             ELSE IF wins # <<>>
             THEN [winner |-> FirstMax(stats, wins), confidence |-> "medium"]
             ELSE [winner |-> best, confidence |-> "low"]

\* get_test_results from variant_stats on: the t-tests, then the winner
Analyze(names, means, sig, an) ==
    /\ LET stats == VariantStats(names, means) IN
           /\ stat_in' = [op |-> "determine_winner", stats |-> stats, sig |-> sig]
           /\ stat_ret' = DetermineWinner(stats, SignificanceResults(stats, sig, an))
    /\ UNCHANGED <<env, now, regVars, ai_cache, reqVars, rlVars, cacheVars, semVars, abVars,
                   ordVars, hlVars, moreVars>>

\* the events of one test handed to the analysis: the variant of each event and whether
\* its metrics hold the target metric
StatEvents ==
    { [variant |-> "control", has_metric |-> TRUE],
      [variant |-> "variant_a", has_metric |-> TRUE],
      [variant |-> "variant_a", has_metric |-> FALSE],
      [variant |-> "variant_x", has_metric |-> TRUE] }

\* test.variants and test.minimum_sample_size of the analysed test
StatVariants == <<"control", "variant_a">>
MinSampleSizes == {1, 2}

EventLists == UNION {[1..n -> StatEvents] : n \in 1..MaxStatEvents}

\* variant_data: the number of target-metric values per variant that has any
VariantData(events) ==
    LET with == SelectSeq(events, LAMBDA e : e.has_metric) IN
        [v \in {with[i].variant : i \in 1..Len(with)} |->
            Len(SelectSeq(with, LAMBDA e : e.variant = v))]

\* ABTestManager._check_sample_adequacy: overall_adequate
OverallAdequate(data, minimum) == \A v \in DOMAIN data : data[v] >= minimum

\* get_test_results, the grouping by variant and the adequacy of the samples
SampleAdequacy(events, minimum) ==
    /\ stat_in' = [op |-> "sample_adequacy", events |-> events, minimum |-> minimum]
    /\ stat_ret' = [overall_adequate |-> OverallAdequate(VariantData(events), minimum)]
    /\ UNCHANGED <<env, now, regVars, ai_cache, reqVars, rlVars, cacheVars, semVars, abVars,
                   ordVars, hlVars, moreVars>>

StatNext ==
    \/ \E names \in StatNameLists :
           \E means \in MeanOrders(Len(names)),
              sig \in SUBSET Range(PairsFrom(1, 2, Len(names))), an \in BOOLEAN :
               Analyze(names, means, sig, an)
    \/ \E events \in EventLists, minimum \in MinSampleSizes : SampleAdequacy(events, minimum)

SpecStats == RlInit /\ [][StatNext]_vars

---------------------------------------------------------------------------
(* _get_provider_priority called on its own, for every configuration and   *)
(* every health record                                                     *)

\* <P>_PRIORITY: the defaults of AIConfig and a configuration that reverses them
PriorityChoices ==
    { [gemini |-> 1, deepseek |-> 2, groq |-> 3],
      [gemini |-> 3, deepseek |-> 2, groq |-> 1],
      [gemini |-> 2, deepseek |-> 2, groq |-> 1] }

\* PROVIDER_HEALTH with the failure counts c
HealthWith(c) == [p \in Providers |-> [failures |-> c[p], last_success |-> 0, last_failure |-> 0]]

\* _get_provider_priority() with the environment e, the priorities prio and the
\* failure counts c
CandidateOrder(e, prio, c) ==
    /\ ord_in' = [op |-> "priority", env |-> e, priority |-> prio, failures |-> c]
    /\ ord_ret' = GetProviderPriority(e, HealthWith(c))
    /\ UNCHANGED <<env, now, regVars, ai_cache, reqVars, rlVars, cacheVars, semVars, abVars,
                   statVars, hlVars, moreVars>>

OrdNext ==
    \E en \in SUBSET Providers, keys \in ApiKeyChoices, prio \in PriorityChoices,
       c \in [Providers -> 0..MaxFailures] :
        CandidateOrder([enabled |-> en, api_key |-> keys, dry_run |-> FALSE], prio, c)

SpecOrder == RlInit /\ [][OrdNext]_vars

---------------------------------------------------------------------------
(* Threads calling _update_provider_health(provider, success).  The         *)
(* function takes no lock: the read of the counter and the store of the    *)
(* new value are separate steps of a thread, and another thread can run    *)
(* between them.                                                           *)

\* the providers whose outcomes the threads report
HlProviders == {"gemini", "deepseek"}

\* entry: now = time.time() and the assignment of last_success or last_failure
HlCall(t, p, success) ==
    /\ hl_pc[t] = "idle"
    /\ Len(hl_log) < MaxHlCalls
    /\ hl_arg' = [hl_arg EXCEPT ![t] = [provider |-> p, success |-> success]]
    /\ hl_log' = Append(hl_log, [provider |-> p, success |-> success])
    /\ PROVIDER_HEALTH' =
           IF success THEN [PROVIDER_HEALTH EXCEPT ![p].last_success = now]
           ELSE [PROVIDER_HEALTH EXCEPT ![p].last_failure = now]
    /\ hl_pc' = [hl_pc EXCEPT ![t] = "read"]
    /\ UNCHANGED <<env, now, RATE_LIMITS, RATE_LIMIT_LOCK, ai_cache, reqVars, rlVars,
                   cacheVars, semVars, abVars, statVars, ordVars, hl_tmp, moreVars>>

\* the read of PROVIDER_HEALTH[provider]["failures"]
HlRead(t) ==
    /\ hl_pc[t] = "read"
    /\ hl_tmp' = [hl_tmp EXCEPT ![t] = PROVIDER_HEALTH[hl_arg[t].provider].failures]
    /\ hl_pc' = [hl_pc EXCEPT ![t] = "write"]
    /\ UNCHANGED <<env, now, regVars, ai_cache, reqVars, rlVars, cacheVars, semVars, abVars,
                   statVars, ordVars, hl_arg, hl_log, moreVars>>

\* the new value of the counter, computed from the value read
NewFailures(read, success) == IF success THEN Max(0, read - 1) ELSE read + 1

\* the store of max(0, failures - 1) or failures + 1
HlWrite(t) ==
    /\ hl_pc[t] = "write"
    /\ PROVIDER_HEALTH' = [PROVIDER_HEALTH EXCEPT ![hl_arg[t].provider].failures =
                               NewFailures(hl_tmp[t], hl_arg[t].success)]
    /\ hl_pc' = [hl_pc EXCEPT ![t] = "idle"]
    /\ hl_arg' = [hl_arg EXCEPT ![t] = NoOutcome]
    /\ hl_tmp' = [hl_tmp EXCEPT ![t] = 0]
    /\ UNCHANGED <<env, now, RATE_LIMITS, RATE_LIMIT_LOCK, ai_cache, reqVars, rlVars,
                   cacheVars, semVars, abVars, statVars, ordVars, hl_log, moreVars>>

HlNext ==
    \/ \E t \in HlThreads, p \in HlProviders, success \in BOOLEAN : HlCall(t, p, success)
    \/ \E t \in HlThreads : HlRead(t)
    \/ \E t \in HlThreads : HlWrite(t)

SpecHealth == RlInit /\ [][HlNext]_vars

---------------------------------------------------------------------------
(* The locked sections of SemanticCache.put and clear_low_quality and of   *)
(* ABTestManager.create_test, record_event and stop_test.  Each begins     *)
(* with "with self.lock:", and _save_cache / _save_data is called inside   *)
(* that block.                                                             *)

\* the calls, with the component whose lock and file they use
IoOps == {"put", "clear_low_quality", "create_test", "record_event", "stop_test"}
Component(op) == IF op \in {"put", "clear_low_quality"} THEN "semantic_cache" ELSE "ab_testing"

\* whether the call reaches the save: create_test and stop_test always do, put and
\* record_event when the length is a multiple of the period, clear_low_quality when it
\* removed an entry
MaySave(op) == IF op \in {"create_test", "stop_test"} THEN {TRUE} ELSE BOOLEAN

\* "with self.lock:" entered and the in-memory update made
IoAcquire(t, op, saves) ==
    /\ io_pc[t] = "idle"
    /\ io_lock[Component(op)] = Free
    /\ io_lock' = [io_lock EXCEPT ![Component(op)] = t]
    /\ io_op' = [io_op EXCEPT ![t] = [op |-> op, saves |-> saves]]
    /\ io_pc' = [io_pc EXCEPT ![t] = "locked"]
    /\ UNCHANGED <<env, now, regVars, ai_cache, reqVars, rlVars, cacheVars, semVars, abVars,
                   statVars, ordVars, hlVars, ldVars, cvVars, ccVars, gen_held>>

\* _save_cache / _save_data: open(file, 'w') and json.dump begin, inside the with block
IoOpenFile(t) ==
    /\ io_pc[t] = "locked"
    /\ io_op[t].saves
    /\ io_pc' = [io_pc EXCEPT ![t] = "writing"]
    /\ UNCHANGED <<env, now, regVars, ai_cache, reqVars, rlVars, cacheVars, semVars, abVars,
                   statVars, ordVars, hlVars, io_op, io_lock, ldVars, cvVars, ccVars, gen_held>>

\* json.dump done and the file closed
IoCloseFile(t) ==
    /\ io_pc[t] = "writing"
    /\ io_pc' = [io_pc EXCEPT ![t] = "written"]
    /\ UNCHANGED <<env, now, regVars, ai_cache, reqVars, rlVars, cacheVars, semVars, abVars,
                   statVars, ordVars, hlVars, io_op, io_lock, ldVars, cvVars, ccVars, gen_held>>

\* the end of the with block: the lock is released and the call returns
IoRelease(t) ==
    /\ \/ io_pc[t] = "written"
       \/ io_pc[t] = "locked" /\ ~io_op[t].saves
    /\ io_lock' = [io_lock EXCEPT ![Component(io_op[t].op)] = Free]
    /\ io_pc' = [io_pc EXCEPT ![t] = "idle"]
    /\ UNCHANGED <<env, now, regVars, ai_cache, reqVars, rlVars, cacheVars, semVars, abVars,
                   statVars, ordVars, hlVars, io_op, ldVars, cvVars, ccVars, gen_held>>

IoNext ==
    \/ \E t \in IoThreads, op \in IoOps : \E saves \in MaySave(op) : IoAcquire(t, op, saves)
    \/ \E t \in IoThreads : IoOpenFile(t)
    \/ \E t \in IoThreads : IoCloseFile(t)
    \/ \E t \in IoThreads : IoRelease(t)

SpecIO == RlInit /\ [][IoNext]_vars

---------------------------------------------------------------------------
(* SemanticCache._load_cache and ABTestManager._load_data, called by the   *)
(* constructors.  A record of the file is the key it carries, or Malformed. *)
(* One try block encloses the whole loop over the records.                 *)

\* the sequences over S of length at most n
SeqsUpTo(S, n) == UNION {[1..k -> S] : k \in 0..n}

LoadKeys == {"k1", "k2"}
LoadTests == {"cv_optimization", "email_optimization"}
LoadEvents == {"e1"}

\* the records the loop constructs before the first record that raises
RECURSIVE LoadedPrefix(_)
LoadedPrefix(records) ==
    IF records = <<>> \/ Head(records) = Malformed THEN <<>>
    ELSE <<Head(records)>> \o LoadedPrefix(Tail(records))

\* whether the loop ran to its end
LoadedAll(records) == Len(LoadedPrefix(records)) = Len(records)

\* SemanticCache.__init__ with the file given: entries = {} and _load_cache
LoadCache(exists, entries) ==
    /\ ld_in' = [component |-> "semantic_cache", exists |-> exists, entries |-> entries,
                 tests |-> <<>>, events |-> <<>>]
    /\ ld_out' = [EmptyStore EXCEPT
                     !.entries = IF exists THEN Range(LoadedPrefix(entries)) ELSE {}]
    /\ UNCHANGED <<env, now, regVars, ai_cache, reqVars, rlVars, cacheVars, semVars, abVars,
                   statVars, ordVars, hlVars, ioVars, cvVars, ccVars, gen_held>>

\* ABTestManager.__init__ with the file given: tests = {}, events = [] and _load_data;
\* the events loop runs only when the tests loop has ended without an exception
LoadData(exists, tests, events) ==
    /\ ld_in' = [component |-> "ab_testing", exists |-> exists, entries |-> <<>>,
                 tests |-> tests, events |-> events]
    /\ ld_out' = [EmptyStore EXCEPT
                     !.tests = IF exists THEN Range(LoadedPrefix(tests)) ELSE {},
                     !.events = IF exists /\ LoadedAll(tests) THEN LoadedPrefix(events)
                                ELSE <<>>]
    /\ UNCHANGED <<env, now, regVars, ai_cache, reqVars, rlVars, cacheVars, semVars, abVars,
                   statVars, ordVars, hlVars, ioVars, cvVars, ccVars, gen_held>>

\* the files a constructor can find: none, or one with up to n records of each kind
LoadFiles(S, n) == {<<FALSE, <<>>>>} \cup {<<TRUE, records>> : records \in SeqsUpTo(S \cup {Malformed}, n)}

LoadNext ==
    \/ \E f \in LoadFiles(LoadKeys, MaxRecords) : LoadCache(f[1], f[2])
    \/ \E f \in LoadFiles(LoadTests, MaxAbRecords),
          events \in SeqsUpTo(LoadEvents \cup {Malformed}, MaxAbRecords) :
              LoadData(f[1], f[2], IF f[1] THEN events ELSE <<>>)

SpecLoad == RlInit /\ [][LoadNext]_vars

---------------------------------------------------------------------------
(* The CV content cache: extract_cv_content_with_caching, _cache_cv_data   *)
(* and _get_cached_cv_data, called one after the other.                    *)

\* _get_cv_cache_key: md5 of the text (md5 taken as injective)
GetCvCacheKey(T) == "md5(" \o T \o ")"

\* _extract_structured_cv_content of the preprocessed text
ExtractStructuredCvContent(T) == "structured(" \o T \o ")"

\* the empty dict returned as structured_content for an empty text
EmptyContent == "{}"

\* an entry is valid while now - timestamp <= ttl
CvValid(entry, t) == t - entry.timestamp <= CACHE_TTL

\* _get_cached_cv_data: the data returned, None on a miss or an expired entry
GetCachedCvData(c, key, t) ==
    IF key \in DOMAIN c /\ CvValid(c[key], t) THEN c[key].data ELSE NoneValue

\* _get_cached_cv_data: the cache it leaves (an expired entry is deleted)
CvAfterGet(c, key, t) ==
    IF key \in DOMAIN c /\ ~CvValid(c[key], t)
    THEN [k \in DOMAIN c \ {key} |-> c[k]] ELSE c

\* a store that forgets the entry it was given
CacheNoCvData(c, key, data, t) == c

\* _cache_cv_data: the entry is stored, then the expired entries are deleted
CacheCvData(c, key, data, t) ==
    LET c1 == DictSet(c, key, [data |-> data, timestamp |-> t])
    IN  [k \in {x \in DOMAIN c1 : CvValid(c1[x], t)} |-> c1[k]]

\* extract_cv_content_with_caching(T)
ExtractCvContent(T) ==
    LET key    == GetCvCacheKey(T)
        cached == GetCachedCvData(CV_CACHE, key, now)
        c1     == CvAfterGet(CV_CACHE, key, now)
    IN  /\ IF T = ""
           THEN /\ cv_ret' = [text |-> T, cached |-> FALSE, structured_content |-> EmptyContent]
                /\ UNCHANGED <<CV_CACHE, cv_first>>
           ELSE IF cached # NoneValue
           THEN /\ cv_ret' = [text |-> T, cached |-> TRUE, structured_content |-> cached]
                /\ CV_CACHE' = c1
                /\ UNCHANGED cv_first
           ELSE /\ cv_ret' = [text |-> T, cached |-> FALSE,
                               structured_content |-> ExtractStructuredCvContent(T)]
                /\ CV_CACHE' = CacheCvData(c1, key, ExtractStructuredCvContent(T), now)
                /\ cv_first' = [cv_first EXCEPT ![T] =
                                   [called |-> TRUE,
                                    structured_content |-> ExtractStructuredCvContent(T),
                                    time |-> now]]
        /\ UNCHANGED <<env, now, regVars, ai_cache, reqVars, rlVars, cacheVars, semVars, abVars,
                       statVars, ordVars, hlVars, ioVars, ldVars, ccVars, gen_held>>

\* the clock steps between two calls
CvDeltas == {1, CACHE_TTL}

\* time passes
CvTick(d) ==
    /\ ticks < MaxCvTicks
    /\ ticks' = ticks + 1
    /\ now' = now + d
    /\ UNCHANGED <<env, regVars, ai_cache, reqVars, rl_pc, rl_provider, rl_now, rl_ret,
                   granted, race, extVars>>

CvNext ==
    \/ \E T \in CvTexts : ExtractCvContent(T)
    \/ \E d \in CvDeltas : CvTick(d)

SpecCv == RlInit /\ [][CvNext]_vars

---------------------------------------------------------------------------
(* Threads inside _cache_response and _get_cached_response.  Neither       *)
(* function takes a lock: a thread can be suspended between two statements *)
(* and another thread can change _ai_cache in between.                     *)

\* the keys the threads use
CcKeys == {"k1", "k2", "k3"}

\* dict lookup or del of a key that is not there raises KeyError
KeyError == "KeyError"

CcFrame == <<env, RATE_LIMITS, RATE_LIMIT_LOCK, PROVIDER_HEALTH, reqVars, rlVars, cacheVars,
             semVars, abVars, statVars, ordVars, hlVars, ioVars, ldVars, cvVars, gen_held>>

\* _get_cached_response: "if cache_key in _ai_cache"
CcGetCheck(t, k) ==
    /\ cc_pc[t] = "idle"
    /\ IF CacheIndex(ai_cache, k) # 0
       THEN /\ cc_pc' = [cc_pc EXCEPT ![t] = "get_read"]
            /\ cc_arg' = [cc_arg EXCEPT ![t] = [key |-> k, response |-> "", oldest_key |-> ""]]
            /\ UNCHANGED cc_ret
       ELSE /\ cc_ret' = [cc_ret EXCEPT ![t] = "miss"]
            /\ UNCHANGED <<cc_pc, cc_arg>>
    /\ UNCHANGED <<CcFrame, now, ai_cache>>

\* "cached_data = _ai_cache[cache_key]" and the test of the timestamp
CcGetRead(t) ==
    /\ cc_pc[t] = "get_read"
    /\ LET i == CacheIndex(ai_cache, cc_arg[t].key) IN
       IF i = 0
       THEN /\ cc_ret' = [cc_ret EXCEPT ![t] = KeyError]
            /\ cc_pc' = [cc_pc EXCEPT ![t] = "idle"]
            /\ cc_arg' = [cc_arg EXCEPT ![t] = NoCacheCall]
       ELSE IF now - ai_cache[i].timestamp < ttl_seconds
       THEN /\ cc_ret' = [cc_ret EXCEPT ![t] = "hit"]
            /\ cc_pc' = [cc_pc EXCEPT ![t] = "idle"]
            /\ cc_arg' = [cc_arg EXCEPT ![t] = NoCacheCall]
       ELSE /\ cc_pc' = [cc_pc EXCEPT ![t] = "get_del"]
            /\ UNCHANGED <<cc_ret, cc_arg>>
    /\ UNCHANGED <<CcFrame, now, ai_cache>>

\* "del _ai_cache[cache_key]" of the expired entry, and "return None"
CcGetDel(t) ==
    /\ cc_pc[t] = "get_del"
    /\ LET i == CacheIndex(ai_cache, cc_arg[t].key) IN
       IF i = 0
       THEN cc_ret' = [cc_ret EXCEPT ![t] = KeyError] /\ UNCHANGED ai_cache
       ELSE cc_ret' = [cc_ret EXCEPT ![t] = "miss"] /\ ai_cache' = RemoveAt(ai_cache, i)
    /\ cc_pc' = [cc_pc EXCEPT ![t] = "idle"]
    /\ cc_arg' = [cc_arg EXCEPT ![t] = NoCacheCall]
    /\ UNCHANGED <<CcFrame, now>>

\* _cache_response: "if len(_ai_cache) >= max_size" and "oldest_key = min(...)"
CcPutCheck(t, k, P) ==
    /\ cc_pc[t] = "idle"
    /\ IF Len(ai_cache) >= max_size
       THEN /\ cc_arg' = [cc_arg EXCEPT ![t] = [key |-> k, response |-> P,
                                oldest_key |-> ai_cache[OldestIndex(ai_cache)].key]]
            /\ cc_pc' = [cc_pc EXCEPT ![t] = "put_evict"]
       ELSE /\ cc_arg' = [cc_arg EXCEPT ![t] = [key |-> k, response |-> P, oldest_key |-> ""]]
            /\ cc_pc' = [cc_pc EXCEPT ![t] = "put_store"]
    /\ UNCHANGED <<CcFrame, now, ai_cache, cc_ret>>

\* "del _ai_cache[oldest_key]"
CcPutEvict(t) ==
    /\ cc_pc[t] = "put_evict"
    /\ LET i == CacheIndex(ai_cache, cc_arg[t].oldest_key) IN
       IF i = 0
       THEN /\ cc_ret' = [cc_ret EXCEPT ![t] = KeyError]
            /\ cc_pc' = [cc_pc EXCEPT ![t] = "idle"]
            /\ cc_arg' = [cc_arg EXCEPT ![t] = NoCacheCall]
            /\ UNCHANGED ai_cache
       ELSE /\ ai_cache' = RemoveAt(ai_cache, i)
            /\ cc_pc' = [cc_pc EXCEPT ![t] = "put_store"]
            /\ UNCHANGED <<cc_ret, cc_arg>>
    /\ UNCHANGED <<CcFrame, now>>

\* "_ai_cache[cache_key] = {response, timestamp}"
CcPutStore(t) ==
    /\ cc_pc[t] = "put_store"
    /\ LET i == CacheIndex(ai_cache, cc_arg[t].key)
           e == [key |-> cc_arg[t].key, response |-> cc_arg[t].response, timestamp |-> now]
       IN  ai_cache' = IF i # 0 THEN [ai_cache EXCEPT ![i] = e] ELSE Append(ai_cache, e)
    /\ cc_ret' = [cc_ret EXCEPT ![t] = "stored"]
    /\ cc_pc' = [cc_pc EXCEPT ![t] = "idle"]
    /\ cc_arg' = [cc_arg EXCEPT ![t] = NoCacheCall]
    /\ UNCHANGED <<CcFrame, now>>

\* time passes: the entries stored before expire
CcTick ==
    /\ ticks < MaxCcTicks
    /\ ticks' = ticks + 1
    /\ now' = now + ttl_seconds
    /\ UNCHANGED <<env, regVars, ai_cache, reqVars, rl_pc, rl_provider, rl_now, rl_ret,
                   granted, race, extVars>>

CcNext ==
    \/ \E t \in Threads, k \in CcKeys : CcGetCheck(t, k)
    \/ \E t \in Threads : CcGetRead(t)
    \/ \E t \in Threads : CcGetDel(t)
    \/ \E t \in Threads, k \in CcKeys : CcPutCheck(t, k, "P1")
    \/ \E t \in Threads : CcPutEvict(t)
    \/ \E t \in Threads : CcPutStore(t)
    \/ CcTick

SpecCC == RlInit /\ [][CcNext]_vars

---------------------------------------------------------------------------
(* Properties *)

\* a provider call of the history that did not produce a usable text,
\* in the sense of the specification: it raised, or the reply is empty or blank
AttemptFailed(ev) == ev.op = "invoke" /\ (ev.reply = Raises \/ Strip(ev.reply) = "")

\* the provider calls of the history
Invocations(h) == SelectSeq(h, LAMBDA ev : ev.op = "invoke")

\* the rate-limit window holds a reservation for provider p
Reserved(p) == p \in DOMAIN RATE_LIMITS /\ RATE_LIMITS[p].daily_count > 0

\* C1: a generate call never raises; it returns a provider name, a non-empty
\* content and a non-empty trace, by live generation, cache hit or fallback
\* (or the dry-run mock).
C1_AlwaysReturnsContent ==
    /\ pc # "raised"
    /\ pc = "done" =>
        /\ result.raised = ""
        /\ result.content # ""
        /\ result.provider_used \in Providers \cup {"cache", "fallback", "mock"}
        /\ trace # <<>>

\* C2: at every moment the calls of one provider that returned True within the
\* last 3600 seconds number at most the hourly cap.
C2_HourlyCapNeverExceeded ==
    \A p \in Providers : Len(granted[p]) <= rate_limit_hourly

\* C3: when two threads race for the last slot of a provider, one call returns
\* True and the other False, and the window grows by exactly one reservation.
C3_LastSlotGoesToOneCaller ==
    (race.active /\ \A t \in Threads : rl_pc[t] = "ret") =>
        /\ Cardinality({t \in Threads : rl_ret[t]}) = 1
        /\ Len(RATE_LIMITS[race.provider].requests) = race.requests + 1
        /\ RATE_LIMITS[race.provider].daily_count = race.daily_count + 1

C3_Witness ==
    /\ race.active
    /\ \A t \in Threads : rl_pc[t] = "ret"
    /\ \E t \in Threads : rl_ret[t]

\* C4: a provider function is called only when the rate-limit window holds a
\* reservation made for that provider.
C4_InvokedOnlyAfterReservation ==
    \A i \in 1..Len(calls) : calls[i].op = "invoke" => Reserved(calls[i].provider)

\* C5: when the first candidate succeeds after k failed attempts, the trace
\* holds k error entries for it followed by one success entry, and no other
\* provider was invoked.
C5_TraceListsEveryAttempt ==
    (pc = "done" /\ result.provider_used \in Providers
                 /\ result.provider_used = providers[1]) =>
        LET p  == result.provider_used
            k  == Len(Invocations(calls)) - 1   \* the attempts before the successful one
            tp == SelectSeq(trace, LAMBDA e : e.provider = p)
        IN  /\ invoked = <<p>>
            /\ Len(tp) = k + 1
            /\ \A i \in 1..k : tp[i].status = "error"
            /\ tp[k + 1].status = "success"

\* C6: one _make_request_with_retry call invokes the provider at most
\* max_retries times; an attempt that raised or answered empty or blank is
\* followed, except after the last attempt, by a sleep of base_delay * 2^i and
\* nothing else is followed by a sleep.
C6_BoundedRetriesWithBackoff ==
    /\ Len(Invocations(calls)) <= max_retries
    /\ \A i \in 1..Len(calls) :
        /\ (AttemptFailed(calls[i]) /\ calls[i].attempt < max_retries - 1) =>
              /\ i < Len(calls)
              /\ calls[i + 1].op = "sleep"
              /\ calls[i + 1].delay = base_delay * Pow2(calls[i].attempt)
        /\ (calls[i].op = "invoke" /\ calls[i].attempt >= max_retries - 1) =>
              i = Len(calls)
        /\ calls[i].op = "sleep" =>
              i > 1 /\ AttemptFailed(calls[i - 1])

\* C7: a generate call makes at most P * max_retries provider calls, hands no
\* provider to the retry helper twice, returns the fallback when no provider
\* succeeded, and always comes to its end.
C7_Bounded ==
    /\ invocations <= Len(providers) * max_retries
    /\ \A i, j \in 1..Len(invoked) : invoked[i] = invoked[j] => i = j
    /\ (pc = "done" /\ Len(providers) > 0
                    /\ invocations = Len(providers) * max_retries
                    /\ \A e \in Range(trace) : e.status # "success") =>
            (result.provider_used = "fallback" /\ result.content = FallbackCv)

C7_GenerateTerminates ==
    /\ []C7_Bounded
    /\ (pc \in {"cache", "loop", "request"}) ~> (pc = "done")

C7_Witness ==
    /\ pc = "done"
    /\ Len(providers) = Len(ProviderOrder)
    /\ invocations = Len(providers) * max_retries
    /\ result.provider_used = "fallback"

\* C8: a provider whose failure count is above the ceiling when the dispatch
\* loop reaches it gets a 'skipped' trace entry, its function is not called
\* and the health records stay as they are; a skipped provider is never
\* invoked in the same call.
C8_SkipStep ==
    (/\ pc = "loop"
     /\ idx <= Len(providers)
     /\ PROVIDER_HEALTH[providers[idx]].failures > FailureCeiling) =>
        /\ trace' = Append(trace, Entry(providers[idx], "skipped", "too_many_failures"))
        /\ PROVIDER_HEALTH' = PROVIDER_HEALTH
        /\ invoked' = invoked
        /\ invocations' = invocations
        /\ pc' = "loop"
        /\ idx' = idx + 1

C8_SkippedNeverInvoked ==
    \A e \in Range(trace) :
        e.status = "skipped" =>
            /\ e.provider \notin Range(invoked)
            /\ PROVIDER_HEALTH[e.provider].failures > FailureCeiling

C8_ExcludedAboveCeiling == [][C8_SkipStep]_vars /\ []C8_SkippedNeverInvoked

C8_Witness ==
    /\ \E e \in Range(trace) : e.status = "skipped"
    /\ Len(providers) >= 2
    /\ pc = "done"

\* C9: a provider above the failure ceiling eventually has its counter back
\* at the ceiling or below (while calls still arrive).
C9_ExclusionIsTemporary ==
    \A p \in Providers :
        (PROVIDER_HEALTH[p].failures > FailureCeiling /\ now <= MaxNow)
            ~> (PROVIDER_HEALTH[p].failures <= FailureCeiling \/ now > MaxNow)

\* C10: a provider is invoked only after the exact-match cache and then the
\* semantic cache were consulted and both missed.
C10_CachesBeforeProviders ==
    /\ \A i \in 1..Len(lookups) : lookups[i] = "semantic" => (i = 2 /\ lookups[1] = "exact")
    /\ invocations > 0 => lookups = <<"exact", "semantic">>

\* C11: a generate call that returns a provider's text has written that text
\* into the exact-match cache and into the semantic cache and has recorded an
\* experiment event for the provider; a call that returns from the cache, the
\* fallback or the dry-run mock has recorded no event and left the semantic
\* cache empty of its prompt.
C11_WritesBothCachesOnSuccessOnly ==
    pc = "done" =>
        IF result.provider_used \in Providers
        THEN /\ GetCachedResponse(ai_cache, cache_key, now) = result.content
             /\ \E e \in Range(sem_entries) :
                    e.prompt_text = prompt /\ e.response_text = result.content
             /\ \E ev \in Range(ab_events) : ev.provider = result.provider_used
        ELSE /\ \A e \in Range(sem_entries) : e.prompt_text # prompt
             /\ ab_events = <<>>

\* C12: a _get_cached_response(k) that follows _cache_response(k, P) with no
\* put in between returns P while now - inserted_at < ttl_seconds; from then on
\* it returns nothing and k is no longer in the cache.
C12_GetStep(k) ==
    (CacheGet(k) /\ last_put.key = k) =>
        IF now - last_put.timestamp < ttl_seconds
        THEN cache_ret'.value = last_put.response
        ELSE cache_ret'.value = NoneValue /\ CacheIndex(ai_cache', k) = 0

C12_PutThenGet == [][\A k \in CacheKeys : C12_GetStep(k)]_vars

C12_Witness ==
    /\ last_put.key # ""
    /\ cache_ret.key = last_put.key
    /\ cache_ret.value = NoneValue
    /\ now - last_put.timestamp >= ttl_seconds
    /\ CacheIndex(ai_cache, last_put.key) = 0
    /\ ai_cache # <<>>

\* C13: the exact-match cache never holds more than max_size entries nor one
\* key twice, and a put made at capacity removes one entry with the least
\* timestamp, and nothing else, before it stores the new one.
C13_Bounded ==
    /\ Len(ai_cache) <= max_size
    /\ \A i, j \in 1..Len(ai_cache) : ai_cache[i].key = ai_cache[j].key => i = j

C13_PutStep(k, P) ==
    (CachePut(k, P) /\ Len(ai_cache) >= max_size) =>
        \E i \in 1..Len(ai_cache) :
            /\ \A j \in 1..Len(ai_cache) : ai_cache[i].timestamp <= ai_cache[j].timestamp
            /\ Range(ai_cache') =
                  {e \in Range(RemoveAt(ai_cache, i)) : e.key # k}
                      \cup {[key |-> k, response |-> P, timestamp |-> now]}

C13_AtMostMaxSizeOldestEvicted ==
    /\ []C13_Bounded
    /\ [][\A kp \in CachePuts : C13_PutStep(kp[1], kp[2])]_vars

C13_Witness ==
    /\ last_put.at_capacity
    /\ Len(ai_cache) = max_size
    /\ \E i, j \in 1..Len(ai_cache) : ai_cache[i].timestamp < ai_cache[j].timestamp
    /\ \E k \in CacheKeys : CacheIndex(ai_cache, k) = 0 /\ cache_ret.key = k
                               /\ cache_ret.value # NoneValue

\* a live (not expired) entry of the semantic cache holds the prompt p
LiveEntries(p) ==
    {e \in Range(sem_entries) : e.prompt_text = p /\ ~(now - e.created_at > ttl_hours)}

\* C14 (as stated): a get with the prompt text of a live entry returns a
\* cached response, whatever puts and gets were made in between.
C14_GetStep(p, metadata, cross) ==
    (SemGet(p, metadata, cross) /\ LiveEntries(p) # {}) => sem_ret' # NoneValue

C14_IdenticalPromptHits ==
    [][\A g \in SemGets, x \in CrossSpaceSimilarities : C14_GetStep(g[1], g[2], x)]_vars

\* C14 (amended): a get with the prompt text of a live entry returns a cached
\* response provided the embedder still maps that text to the non-zero vector
\* stored with the entry, that is, no fit has changed the embedder since the
\* entry was inserted.
C14_SameFitGetStep(p, metadata, cross) ==
    (/\ SemGet(p, metadata, cross)
     /\ \E e \in LiveEntries(p) :
            e.embedding = Embed(embedder, p) /\ e.embedding.text # ZeroText)
        => sem_ret' # NoneValue

C14_IdenticalPromptHitsUntilRefit ==
    [][\A g \in SemGets, x \in CrossSpaceSimilarities : C14_SameFitGetStep(g[1], g[2], x)]_vars

C14_Witness ==
    /\ sem_ret # NoneValue
    /\ embedder.is_fitted /\ embedder.usable
    /\ \E e \in Range(sem_entries) :
            /\ e.access_count > 0
            /\ e.response_text = sem_ret
            /\ e.last_accessed = now
            /\ e.embedding = Embed(embedder, e.prompt_text)

\* C15: the semantic cache holds at most max_entries entries.
C15_AtMostMaxEntries == Len(sem_entries) <= max_entries

C15_Witness ==
    /\ sem_evicted # <<>>
    /\ Len(sem_entries) = max_entries

\* C16: every entry removed by capacity eviction was last accessed no later
\* than every entry that survived it.
C16_EvictsLeastRecentlyAccessed ==
    \A e \in Range(sem_evicted), k \in Range(sem_entries) :
        e.last_accessed <= k.last_accessed

C16_Witness ==
    \E e \in Range(sem_evicted), k \in Range(sem_entries) :
        /\ k.access_count > 0
        /\ k.created_at <= e.created_at
        /\ e.last_accessed < k.last_accessed

\* the contract of an experiment's configuration
WellFormed(variants, split) ==
    /\ Len(variants) > 0
    /\ Cardinality(Range(variants)) = Len(variants)
    /\ Range(variants) = SplitKeys(split)
    /\ Abs(SplitSum(split) - HashBuckets) <= SplitTolerance

C17_CreateStep(t, cfg) ==
    (CreateTest(t, cfg) /\ (~WellFormed(cfg.variants, cfg.traffic_split) \/ t \in DOMAIN ab_tests))
        => (ab_ret'.raised # "" /\ ab_tests' = ab_tests)

\* C17: every experiment the manager holds, created or loaded from the data file, has a
\* non-empty list of unique variant names, the same names as keys of traffic_split and
\* probabilities summing to 1.0 within 0.01; a create_test call that breaks one of these
\* or reuses a test_id raises ValueError and leaves the experiments unchanged.
C17_ExperimentsWellFormed ==
    [][ /\ \A t \in DOMAIN ab_tests' :
              WellFormed(ab_tests'[t].variants, ab_tests'[t].traffic_split)
        /\ \A c \in AbCreateArgs : C17_CreateStep(c[1], c[2]) ]_vars

\* C18: two assign_variant calls for the same experiment and subject, made while the
\* experiment is active and within its dates, return the same variant, whatever other
\* subjects were assigned, events recorded and experiments created in between.
C18_AssignmentIsDeterministic ==
    \A a \in ab_assigned, b \in ab_assigned :
        (a[1] = b[1] /\ a[2] = b[2]) => a[3] = b[3]

\* a subject assigned a second time, after an event, another subject's assignment and
\* the creation of another experiment
C18_Witness ==
    /\ ab_ret.op = "assign_variant"
    /\ ab_ret.value # NoneValue
    /\ <<ab_ret.test, ab_ret.user, ab_ret.value, 2>> \in ab_assigned
    /\ \E b \in ab_assigned : b[1] = ab_ret.test /\ b[2] # ab_ret.user
    /\ \E i \in 1..Len(ab_events) : ab_events[i].test_id = ab_ret.test
    /\ DOMAIN ab_tests = AbTestIds

\* the experiment is unknown, inactive, not yet started or past its end date
NothingToAssign(t) ==
    \/ t \notin DOMAIN ab_tests
    \/ ~ab_tests[t].is_active
    \/ now < ab_tests[t].start_date
    \/ now > ab_tests[t].end_date

\* v is the first variant, in traffic_split order, whose cumulative probability is at
\* least h
FirstCovering(split, h, v) ==
    \E i \in 1..Len(split) :
        /\ split[i][1] = v
        /\ Cumulative(split, i) >= h
        /\ \A j \in 1..(i - 1) : Cumulative(split, j) < h

Covered(split, h) == \E i \in 1..Len(split) : Cumulative(split, i) >= h

C19_AssignStep(t, u) ==
    AssignVariant(t, u) =>
        IF NothingToAssign(t)
        THEN ab_ret'.value = NoneValue
        ELSE /\ ab_ret'.value \in Range(ab_tests[t].variants)
             /\ FirstCovering(ab_tests[t].traffic_split, HashBucket(t, u), ab_ret'.value)

\* C19: assign_variant returns nothing when the experiment is unknown, inactive, not
\* yet started or past end_date; otherwise it returns a member of the variant set, the
\* first variant in traffic_split order whose cumulative probability is at least the
\* subject's hash value.
C19_FirstCoveringVariant == [][\A a \in AbAssignArgs : C19_AssignStep(a[1], a[2])]_vars

C19_FallbackAssignStep(t, u) ==
    AssignVariant(t, u) =>
        IF NothingToAssign(t)
        THEN ab_ret'.value = NoneValue
        ELSE /\ ab_ret'.value \in Range(ab_tests[t].variants)
             /\ IF Covered(ab_tests[t].traffic_split, HashBucket(t, u))
                THEN FirstCovering(ab_tests[t].traffic_split, HashBucket(t, u), ab_ret'.value)
                ELSE ab_ret'.value = ab_tests[t].variants[1]

\* C19, amended: as above, and when no cumulative probability reaches the hash value
\* (the probabilities sum to less than 1.0, within the tolerance) it returns the first
\* element of the variant list.
C19_FirstCoveringVariantOrFallback ==
    [][\A a \in AbAssignArgs : C19_FallbackAssignStep(a[1], a[2])]_vars

\* a subject whose hash value no cumulative probability reaches was given variants[0],
\* which is not the first key of traffic_split
C19_Witness ==
    /\ ab_ret.op = "assign_variant"
    /\ ab_ret.test \in DOMAIN ab_tests
    /\ ~NothingToAssign(ab_ret.test)
    /\ ~Covered(ab_tests[ab_ret.test].traffic_split, HashBucket(ab_ret.test, ab_ret.user))
    /\ ab_ret.value = ab_tests[ab_ret.test].variants[1]
    /\ ab_ret.value # ab_tests[ab_ret.test].traffic_split[1][1]

C20_AssignStep(t, u) ==
    (AssignVariant(t, u) /\ t \in ab_stopped) => ab_ret'.value = NoneValue

\* C20: once stop_test has stopped an experiment, no create_test, assign_variant,
\* record_event, get_test_results or stop_test call makes it active again, and
\* assign_variant returns nothing for it from then on.
C20_StoppedIsTerminal ==
    [][ /\ \A t \in ab_stopped' : t \in DOMAIN ab_tests' /\ ~ab_tests'[t].is_active
        /\ \A a \in AbAssignArgs : C20_AssignStep(a[1], a[2]) ]_vars

\* an experiment that assigned a variant, was stopped, and assigns nothing to the same
\* subject at the instant of the stop (now = end_date: only is_active refuses)
C20_Witness ==
    /\ ab_ret.op = "assign_variant"
    /\ ab_ret.test \in ab_stopped
    /\ ab_ret.value = NoneValue
    /\ \E a \in ab_assigned : a[1] = ab_ret.test /\ a[2] = ab_ret.user
    /\ now = ab_tests[ab_ret.test].end_date

C21_StopStep(t) ==
    StopTest(t) =>
        /\ ab_ret'.raised = ""
        /\ (t \notin DOMAIN ab_tests \/ ~ab_tests[t].is_active)
               => (ab_tests' = ab_tests /\ ab_events' = ab_events)

\* C21: stop_test on an already stopped experiment leaves the whole experiment record,
\* is_active and end_date included, as the first stop left it; stop_test on an unknown
\* id changes nothing and raises nothing.
C21_StopIsIdempotent == [][\A t \in AbStopArgs : C21_StopStep(t)]_vars

IsPrefix(s, t) == Len(s) <= Len(t) /\ SubSeq(t, 1, Len(s)) = s

C22_RecordStep(t, u, v) ==
    RecordEvent(t, u, v) =>
        /\ ab_ret'.raised = ""
        /\ IF t \in DOMAIN ab_tests
           THEN /\ Len(ab_events') = Len(ab_events) + 1
                /\ IsPrefix(ab_events, ab_events')
                /\ ab_events'[Len(ab_events')] = [test_id |-> t, user_id |-> u, variant |-> v]
           ELSE ab_events' = ab_events

\* C22: the event log is append-only: every operation of the manager leaves the events
\* recorded before as an unchanged prefix of the list; record_event for a known
\* experiment appends exactly one event, and for an unknown id appends nothing and
\* raises nothing.
C22_EventLogAppendOnly ==
    [][ /\ \A c \in AbCreateArgs : CreateTest(c[1], c[2]) => ab_events' = ab_events
        /\ \A a \in AbAssignArgs : AssignVariant(a[1], a[2]) => ab_events' = ab_events
        /\ \A t \in AbLookups : GetTestResults(t) => ab_events' = ab_events
        /\ \A t \in AbStopArgs : StopTest(t) => ab_events' = ab_events
        /\ \A e \in AbEventArgs : C22_RecordStep(e[1], e[2], e[3]) ]_vars

\* a second event has just been appended behind the first
C22_Witness ==
    /\ ab_ret.op = "record_event"
    /\ Len(ab_events) = 2
    /\ ab_events[1].test_id \in DOMAIN ab_tests

\* the name with the largest mean among a set of names
HighestMean(stats, S) ==
    {n \in S : \A m \in S : stats[StatIndex(stats, m)].mean <= stats[StatIndex(stats, n)].mean}

\* the higher-mean sides of the significant pairwise comparisons
HigherSides(stats, sig) ==
    {IF stats[p[1]].mean > stats[p[2]].mean THEN stats[p[1]].name ELSE stats[p[2]].name : p \in sig}

\* C23: with pairwise significance given, the reported winner is the highest-mean
\* variant with confidence high when it is the higher-mean side of a significant
\* comparison; otherwise the highest-mean variant among the higher-mean sides with
\* confidence medium when some comparison is significant; otherwise the highest-mean
\* variant with confidence low; for every set of variant names and means.
C23_WinnerByMeanAndSignificance ==
    (stat_in.op = "determine_winner" /\ stat_in.stats # <<>>) =>
        LET stats == stat_in.stats
            all   == {stats[i].name : i \in 1..Len(stats)}
            sides == HigherSides(stats, stat_in.sig)
            best  == HighestMean(stats, all)
        IN  IF best \cap sides # {}
            THEN stat_ret.winner \in best /\ stat_ret.confidence = "high"
            ELSE IF sides # {}
            THEN stat_ret.winner \in HighestMean(stats, sides) /\ stat_ret.confidence = "medium"
            ELSE stat_ret.winner \in best /\ stat_ret.confidence = "low"

\* the number of target-metric values recorded for a variant
Recorded(events, v) == Len(SelectSeq(events, LAMBDA e : e.has_metric /\ e.variant = v))

\* C24: the experiment is reported ready for conclusion (overall_adequate) only when
\* every variant configured for it has at least minimum_sample_size recorded values of
\* the target metric; a configured variant without values keeps it not ready.
C24_ReadyOnlyWhenEveryVariantAdequate ==
    (stat_in.op = "sample_adequacy" /\ stat_ret.overall_adequate) =>
        \A v \in Range(StatVariants) : Recorded(stat_in.events, v) >= stat_in.minimum

\* no provider is both enabled and supplied with an API key
NoProviderConfigured == env.enabled \cap env.api_key = {}

\* C25: when no provider is both enabled and supplied with an API key, a generate
\* request that is not a dry run invokes no provider function, returns the fallback
\* content, and returns a trace whose entries all have status skipped or fallback.
C25_NoProviderGivesFallback ==
    (NoProviderConfigured /\ ~env.dry_run /\ pc \in {"done", "raised"}) =>
        /\ invocations = 0
        /\ invoked = <<>>
        /\ pc = "done"
        /\ result.provider_used = "fallback"
        /\ result.content = FallbackCv
        /\ \A e \in Range(trace) : e.status \in {"skipped", "fallback"}

\* C26: a malformed provider reply (an HTTP success whose body lacks the text field) is
\* handled like a transport error: the attempt fails and is retried, a failure is
\* recorded for the provider when the retries run out, and the body is never returned
\* as content or cached.
C26_MalformedReplyIsAFailure ==
    [][ MakeRequest(DumpedBody) =>
          /\ pc' # "done"
          /\ result' = result
          /\ ai_cache' = ai_cache
          /\ IF LastAttempt(attempt)
             THEN PROVIDER_HEALTH'[providers[idx]].failures
                      = PROVIDER_HEALTH[providers[idx]].failures + 1
             ELSE attempt' = attempt + 1 ]_vars

\* a reservation counted for the provider is 3600 seconds old or older
HasAgedReservation(pl, t) == \E i \in 1..Len(pl.requests) : t - pl.requests[i] >= HourSeconds

C27_CheckStep(t) ==
    RlCheck(t) =>
        LET p  == rl_provider[t]
            pl == ProviderLimits(RATE_LIMITS, p, now)
            w  == DailyReset(pl, now)
        IN  /\ (HasAgedReservation(pl, now) /\ w.daily_count < rate_limit_daily)
                   => rl_pc'[t] = "record"
            /\ rl_pc'[t] = "ret" =>
                   /\ rl_ret'[t] = FALSE
                   /\ Range(RATE_LIMITS'[p].requests) \subseteq Range(pl.requests)
                   /\ RATE_LIMITS'[p].daily_count <= pl.daily_count

\* C27: once a counted reservation is 3600 seconds old or older, a _check_rate_limit
\* call is granted again, provided the daily cap is not reached; a denied call records
\* no timestamp and does not increment daily_count.
C27_WindowRollsOver ==
    [][ /\ \A t \in Threads : C27_CheckStep(t)
        /\ \A t \in Threads : RlRecord(t) => rl_ret'[t] = TRUE ]_vars

\* one caller was denied at the hourly cap and, later, another one was granted: the
\* provider has more reservations today than the hourly cap
C27_Witness ==
    \E t \in Threads, u \in Threads :
        /\ rl_pc[u] = "ret" /\ ~rl_ret[u]
        /\ rl_pc[t] = "ret" /\ rl_ret[t]
        /\ rl_now[t] >= rl_now[u] + HourSeconds - 1
        /\ rl_provider[t] = rl_provider[u]
        /\ RATE_LIMITS[rl_provider[t]].daily_count = rate_limit_hourly + 1

\* C28: the candidate order holds exactly the providers that are enabled and have
\* credentials, ascending by consecutive failures, and providers with equal failure
\* counts in ascending order of their configured priority number.
C28_OrderedByFailuresThenPriority ==
    ord_in.op = "priority" =>
        /\ Range(ord_ret) = ord_in.env.enabled \cap ord_in.env.api_key
        /\ \A i, j \in 1..Len(ord_ret) :
               i < j =>
                   /\ ord_ret[i] # ord_ret[j]
                   /\ ord_in.failures[ord_ret[i]] <= ord_in.failures[ord_ret[j]]
                   /\ ord_in.failures[ord_ret[i]] = ord_in.failures[ord_ret[j]]
                          => ord_in.priority[ord_ret[i]] <= ord_in.priority[ord_ret[j]]

\* the record of a provider after a failure outcome at time t
AfterFailure(h, t) ==
    [failures |-> h.failures + 1, last_success |-> h.last_success, last_failure |-> t]

\* the record of a provider after a success outcome at time t
AfterSuccess(h, t) ==
    [failures |-> IF h.failures = 0 THEN 0 ELSE h.failures - 1,
     last_success |-> t, last_failure |-> h.last_failure]

C29_RequestStep(o) ==
    MakeRequest(o) =>
        LET p == providers[idx] IN
            /\ \A q \in Providers \ {p} : PROVIDER_HEALTH'[q] = PROVIDER_HEALTH[q]
            /\ pc' = "done" => PROVIDER_HEALTH'[p] = AfterSuccess(PROVIDER_HEALTH[p], now)
            /\ pc' = "loop" => PROVIDER_HEALTH'[p] = AfterFailure(PROVIDER_HEALTH[p], now)
            /\ pc' = "request" => PROVIDER_HEALTH'[p] = PROVIDER_HEALTH[p]

\* C29: consecutive failures never go below 0; a failure outcome raises the count of
\* its provider by exactly 1 and sets last_failure, a success outcome lowers it by
\* exactly 1 unless it is 0 and sets last_success, and the records of the other
\* providers are unchanged.
C29_HealthCounterSteps ==
    [][ /\ \A q \in Providers : PROVIDER_HEALTH'[q].failures >= 0
        /\ \A o \in Outcomes : C29_RequestStep(o) ]_vars

\* a provider that failed twice and then succeeded keeps one failure
C29_Witness ==
    \E p \in Providers :
        /\ pc = "done"
        /\ result.provider_used = p
        /\ PROVIDER_HEALTH[p].failures >= 1
        /\ PROVIDER_HEALTH[p].last_success = now
        /\ PROVIDER_HEALTH[p].last_failure > 0

\* the outcomes reported for a provider, in the order the calls started
OutcomesOf(p) == SelectSeq(hl_log, LAMBDA o : o.provider = p)

\* the counter after the outcomes os applied one after the other in the order perm
RECURSIVE SequentialCount(_, _, _)
SequentialCount(os, perm, k) ==
    IF k = 0 THEN 0
    ELSE NewFailures(SequentialCount(os, perm, k - 1), os[perm[k]].success)

\* the final counters of all sequential orders of the outcomes os
SequentialCounts(os) ==
    {SequentialCount(os, perm, Len(os)) :
        perm \in {f \in [1..Len(os) -> 1..Len(os)] : \A i, j \in 1..Len(os) : f[i] = f[j] => i = j}}

\* C30: when several threads record outcomes for the same provider concurrently, the
\* final count of consecutive failures is the one some sequential order of the same
\* outcomes produces, under every interleaving of the reads and the writes.
C30_NoLostUpdate ==
    (\A t \in HlThreads : hl_pc[t] = "idle") =>
        \A p \in HlProviders : PROVIDER_HEALTH[p].failures \in SequentialCounts(OutcomesOf(p))

\* a prompt with leading and trailing whitespace removed and runs of whitespace collapsed
Trimmed(p) == IF p \in {" jd A ", "jd  A"} THEN "jd A" ELSE p

\* C31: two prompts that differ only in leading or trailing whitespace or in runs of
\* whitespace and have the same scope label map to the same exact-match cache key, so a
\* lookup for one returns the response just stored under the other; prompts with
\* different scope labels never share a key.
C31_LookupStep(p, q, scope) ==
    (/\ KeyLookup(p, scope)
     /\ last_put.response # NoneValue
     /\ last_put.key = GetCacheKey(q, scope)
     /\ Trimmed(p) = Trimmed(q)) => cache_ret'.value = last_put.response

C31_CosmeticVariantsShareKey ==
    /\ [][\A p, q \in KeyPrompts, scope \in KeyScopes : C31_LookupStep(p, q, scope)]_vars
    /\ [](\A p, q \in KeyPrompts, s1, s2 \in KeyScopes :
             GetCacheKey(p, s1) = GetCacheKey(q, s2) => s1 = s2)

\* C32: no component writes its snapshot file while holding its in-memory mutex: while
\* a thread writes the file in put, clear_low_quality, create_test, record_event or
\* stop_test, the lock of that component is not held by it, so another thread can
\* acquire the lock during the write.
C32_NoWriteUnderLock ==
    \A t \in IoThreads :
        io_pc[t] = "writing" => io_lock[Component(io_op[t].op)] # t

\* the well-formed records of a file, in their order
WellFormedRecords(records) == SelectSeq(records, LAMBDA r : r # Malformed)

\* C33: loading a snapshot never fails start-up: a missing file gives an empty store,
\* and from a file with well-formed and malformed records exactly the malformed records
\* are dropped: every well-formed record, before or after a malformed one, is loaded.
C33_LoadDropsOnlyMalformed ==
    ld_in.component # "" =>
        /\ ~ld_out.raised
        /\ ~ld_in.exists => ld_out = EmptyStore
        /\ ld_in.exists =>
              /\ ld_out.entries = Range(WellFormedRecords(ld_in.entries))
              /\ ld_out.tests = Range(WellFormedRecords(ld_in.tests))
              /\ ld_out.events = WellFormedRecords(ld_in.events)

\* C34: with AI_DRY_RUN true, generate_cv and generate_cover_letter invoke no provider
\* function and leave the provider health records, the rate-limit windows and the
\* exact-match cache as they were; the call returns provider 'mock' and the content
\* that depends on the inputs only.
C34_DryRunTouchesNothing ==
    (env.dry_run /\ pc \in {"done", "raised"}) =>
        /\ invocations = 0
        /\ invoked = <<>>
        /\ PROVIDER_HEALTH = InitHealth
        /\ RATE_LIMITS = EmptyDict
        /\ ai_cache = <<>>
        /\ pc = "done"
        /\ result.provider_used = "mock"
        /\ result.content = MockCv

\* C35: for a non-empty CV text T, extract_cv_content_with_caching(T) reports
\* cached = False when T has not been processed before, and a later call with the same
\* T within CACHE_TTL of the call that processed it reports cached = True with the
\* structured_content of that call; a call with the empty text reports cached = False
\* and stores nothing in the CV cache.
C35_ExtractStep(T) ==
    ExtractCvContent(T) =>
        /\ T = "" => ~cv_ret'.cached /\ CV_CACHE' = CV_CACHE
        /\ (T # "" /\ ~cv_first[T].called) => ~cv_ret'.cached
        /\ (T # "" /\ cv_first[T].called /\ now - cv_first[T].time <= CACHE_TTL) =>
              /\ cv_ret'.cached
              /\ cv_ret'.structured_content = cv_first[T].structured_content

C35_SecondCallIsCached == [][\A T \in CvTexts : C35_ExtractStep(T)]_vars

\* a call at the very end of the TTL of the first call was answered from the cache
\* while another text is cached too
C35_Witness ==
    /\ cv_ret.text = "cv A"
    /\ cv_ret.cached
    /\ cv_first["cv A"].called
    /\ now - cv_first["cv A"].time = CACHE_TTL
    /\ cv_ret.structured_content = cv_first["cv A"].structured_content
    /\ GetCvCacheKey("cv B") \in DOMAIN CV_CACHE

\* C36: after a generate request in which every candidate is exhausted without success,
\* the consecutive-failures count of each provider that was attempted has risen by
\* exactly 1 (one failure per provider per request, not one per retry), and the count of
\* every provider that was skipped or not configured is what it was.
C36_OneFailurePerAttemptedProvider ==
    (pc = "done" /\ result.provider_used = "fallback") =>
        \A p \in Providers :
            PROVIDER_HEALTH[p].failures =
                health0[p].failures + (IF p \in Range(invoked) THEN 1 ELSE 0)

\* a request ended in the fallback after every attempted provider, one with failures
\* on record already, used up its retries, while another provider was not attempted
C36_Witness ==
    /\ pc = "done"
    /\ result.provider_used = "fallback"
    /\ Len(invoked) >= 2
    /\ invocations = max_retries * Len(invoked)
    /\ max_retries > 1
    /\ \E p \in Range(invoked) : health0[p].failures > 0
    /\ Providers \ Range(invoked) # {}

\* C37: the exact-match cache is guarded against concurrent use: when several threads
\* run _cache_response and _get_cached_response concurrently, no call raises (as two
\* gets deleting the same expired key would) and the cache never holds more than
\* max_size entries, under every interleaving.
C37_CacheSafeUnderThreads ==
    /\ \A t \in Threads : cc_ret[t] # KeyError
    /\ Len(ai_cache) <= max_size

\* traffic_split[v], the probability configured for a variant
Probability(split, v) == SplitSum(SelectSeq(split, LAMBDA item : item[1] = v))

\* C38: a variant whose traffic_split probability is 0 is never returned by
\* assign_variant, for any subject id and any position in the traffic_split order.
C38_ZeroSplitNeverAssigned ==
    \A a \in ab_assigned :
        a[1] \in DOMAIN ab_tests => Probability(ab_tests[a[1]].traffic_split, a[3]) > 0

\* the keys of variant_statistics in get_test_results: the variants of the test's events
StatisticsKeys(t) == {e.variant : e \in {x \in Range(ab_events) : x.test_id = t}}

\* C39: every variant in an experiment's recorded events, and so in variant_statistics
\* and the winner of get_test_results, is one of the variants configured for the
\* experiment, after any sequence of create, stop, assign_generation_variant and
\* record_generation_metrics calls.
C39_EventsCarryConfiguredVariants ==
    \A t \in DOMAIN ab_tests : StatisticsKeys(t) \subseteq Range(ab_tests[t].variants)

\* C40: _cache_response on a key that is already in the exact-match cache only replaces
\* the value and the timestamp of that key: it removes no other key, even when the
\* cache is at max_size.
C40_PutStep(k, P) ==
    (CachePut(k, P) /\ CacheIndex(ai_cache, k) # 0) =>
        /\ {e.key : e \in Range(ai_cache')} = {e.key : e \in Range(ai_cache)}
        /\ \A e \in Range(ai_cache) : e.key # k => e \in Range(ai_cache')
        /\ [key |-> k, response |-> P, timestamp |-> now] \in Range(ai_cache')

C40_OverwriteEvictsNothing == [][\A kp \in CachePuts : C40_PutStep(kp[1], kp[2])]_vars

====
